---- MODULE Spec2Model ----
(***************************************************************************)
(* State-machine model of the GitHub metrics ingestion pipeline:           *)
(*   - api/EventProcessor/app.py : SQS-triggered Processor (idempotent     *)
(*     conditional insert into the processed-events table, best-effort     *)
(*     atomic increment of the per-repository opened-PR counter);          *)
(*   - api/EventPoller/app.py    : Poller (conditional fetch with ETag,    *)
(*     new-event extraction, batched publish to SQS, cursor replacement).  *)
(*   - api/StatisticsAPI/app.py  : query API (average time between the     *)
(*     opened pull requests of a repository, counts by category over a     *)
(*     trailing window, listing of the repositories with opened counters); *)
(*   - api/VisualizationAPI/app.py : timeline of per-category counts per   *)
(*     interval, queried concurrently.                                     *)
(* The specifications share the variables:                                 *)
(*   Spec        the Processor fed by an at-least-once queue,              *)
(*   SpecPoller  the Poller against an upstream feed,                      *)
(*   SpecFilter  filter_new_events applied to arbitrary bounded inputs,    *)
(*   SpecSeen    the seen-id list stored for a fetched page of any length, *)
(*   SpecStats   the Statistics API serving one request on a table,        *)
(*   SpecPages, SpecPagesLive  get_pr_events_for_repo, query by query,     *)
(*   SpecTimeline      the Visualization API serving one timeline request, *)
(*   SpecTimelineLive  the same under fair scheduling of its threads.      *)
(***************************************************************************)
EXTENDS Integers, Sequences, FiniteSets, TLC

VARIABLES
    \* ---- Processor side -------------------------------------------------
    processed_events,  \* items of the processed-events table (a set of items)
    summary,           \* repo-pr-summary table: repo_name -> opened_pr_count
    sent,              \* SQS: bodies of the messages the queue was given (index = message id)
    deleted,           \* SQS: message ids acknowledged (deleted) by the transport
    inv,               \* per Lambda invocation: batch, loop index, stage, per-record results
    clock,             \* number of invocations started so far (source of processed_at)
    delivered,         \* number of records handed to invocations so far
    hist,              \* history per table key: inserts, increments, missed increments, failed puts
    \* ---- Poller side ----------------------------------------------------
    feed,              \* upstream feed: number of events so far, type pattern, current ETag
    cursor,            \* state table: the items with id "github_events_poll_state" (none or one)
    poll,              \* the running poll invocation: stage, locals, outcome
    queue_calls,       \* send_message_batch calls accepted by SQS, oldest first
    log,               \* log lines of interest written by the running poll
    polls,             \* number of polls started
    past,              \* what went wrong in the polls so far (kept for the properties)
    \* ---- filter_new_events on arbitrary inputs ---------------------------
    f_events, f_seen, f_result,
    \* ---- Statistics API ---------------------------------------------------
    st_items,          \* processed-events table as the category index returns it (a list of rows)
    st_request,        \* the API Gateway event being served
    st_response,       \* the response of lambda_handler
    st_pages,          \* the loop of get_pr_events_for_repo: items so far, LastEvaluatedKey
    \* ---- Visualization API (timeline) --------------------------------------
    tl_request,        \* the API Gateway event being served
    tl_table,          \* processed-events table (a set of rows)
    tl_clock,          \* datetime.now(UTC), in half seconds
    tl_futures,        \* the futures of get_event_timeline_data, in submission order
    tl_timeline,       \* timeline_data
    tl_pc,             \* where the main thread is; whether the clock ticked; tasks run so far
    tl_response        \* the response of lambda_handler

vars == << processed_events, summary, sent, deleted, inv, clock, delivered, hist,
           feed, cursor, poll, queue_calls, log, polls, past,
           f_events, f_seen, f_result,
           st_items, st_request, st_response, st_pages,
           tl_request, tl_table, tl_clock, tl_futures, tl_timeline, tl_pc, tl_response >>

procVars   == << processed_events, summary, sent, deleted, inv, clock, delivered, hist >>
pollerVars == << feed, cursor, poll, queue_calls, log, polls, past >>
filterVars == << f_events, f_seen, f_result >>
statsVars  == << st_items, st_request, st_response, st_pages >>
timelineVars == << tl_request, tl_table, tl_clock, tl_futures, tl_timeline, tl_pc, tl_response >>

Absent == "absent"              \* a missing string attribute (None)
NoRecord == [kind |-> "none"]   \* a missing dict / not yet produced value
NoETag == << >>                 \* etag None
NoTime == 0                     \* last_poll None

(***************************************************************************)
(* Bounds                                                                  *)
(***************************************************************************)
NumInvocations == 2     \* concurrent Lambda invocations of the Processor
MaxRecords     == 2     \* records handed to invocations in one behaviour

Procs == 1..NumInvocations

(***************************************************************************)
(* Message bodies the queue can carry (json body built by the Poller).     *)
(***************************************************************************)
T1 == "2025-08-23T12:00:00Z"
T2 == "2025-08-23T12:05:00Z"

Body(id, type, repo, action, created_at) ==
    [id |-> id, type |-> type, repo |-> repo, action |-> action, created_at |-> created_at]

BodyList ==
    << Body("pr-42", "PullRequestEvent", "octocat/hello-world", "opened", T1),
       Body("pr-42", "PullRequestEvent", "octocat/hello-world", "opened", T2),
       Body("pr-43", "PullRequestEvent", "octocat/hello-world", "opened", T2),
       Body("pr-44", "PullRequestEvent", "octo/repo", "closed", T1),
       Body("issue-1", "IssuesEvent", "octo/repo", "opened", T1),
       Body("watch-1", "WatchEvent", "octo/repo", "started", T2),
       Body("unknown-1", "SomeOtherEvent", "octo/repo", "opened", T2) >>

Bodies == { BodyList[j] : j \in 1..Len(BodyList) }

\* the queue contents to start from: one message, or a pair of messages
\* with any bodies, equal ones included (message ids are arbitrary, so one
\* order per pair)
QueueContents ==
    { << b >> : b \in Bodies } \cup
    { << BodyList[x[1]], BodyList[x[2]] >> :
         x \in { y \in (DOMAIN BodyList) \X (DOMAIN BodyList) : y[1] <= y[2] } }

Repos == { b.repo : b \in Bodies }

(***************************************************************************)
(* EventProcessor: normalisation and the stored item                       *)
(***************************************************************************)
process_pull_request_event(event) == [pr_action |-> event.action, action |-> Absent]
process_issues_event(event)       == [pr_action |-> Absent, action |-> event.action]
process_watch_event(event)        == [pr_action |-> Absent, action |-> event.action]

\* process_github_event up to the call of store_processed_event
process_github_event(event, now) ==
    LET extra == CASE event.type = "PullRequestEvent" -> process_pull_request_event(event)
                   [] event.type = "IssuesEvent"      -> process_issues_event(event)
                   [] event.type = "WatchEvent"       -> process_watch_event(event)
                   [] OTHER -> [pr_action |-> Absent, action |-> Absent]
    IN  [id |-> event.id, type |-> event.type, repo_name |-> event.repo,
         created_at |-> event.created_at, processed_at |-> now,
         pr_action |-> extra.pr_action, action |-> extra.action]

\* variant: an unrecognized type is stored under a catch-all category
StoreItem_NormalisesType(pe) ==
    [pk |-> << "event#", pe.id >>, created_at |-> pe.created_at,
     event_type |-> IF pe.type \in {"PullRequestEvent", "IssuesEvent", "WatchEvent"}
                    THEN pe.type ELSE "Unknown",
     repo_name |-> pe.repo_name, processed_at |-> pe.processed_at, id |-> pe.id,
     pr_action |-> IF pe.type = "PullRequestEvent" THEN pe.pr_action ELSE Absent,
     action    |-> IF pe.type \in {"IssuesEvent", "WatchEvent"} THEN pe.action ELSE Absent]

\* the item store_processed_event builds
StoreItem(pe) ==
    [pk |-> << "event#", pe.id >>, created_at |-> pe.created_at, event_type |-> pe.type,
     repo_name |-> pe.repo_name, processed_at |-> pe.processed_at, id |-> pe.id,
     pr_action |-> IF pe.type = "PullRequestEvent" THEN pe.pr_action ELSE Absent,
     action    |-> IF pe.type \in {"IssuesEvent", "WatchEvent"} THEN pe.action ELSE Absent]

\* primary key of the processed-events table: HASH pk, RANGE created_at
TableKey(item) == << item.pk, item.created_at >>

KeyOfBody(b) == << << "event#", b.id >>, b.created_at >>
Keys == { KeyOfBody(b) : b \in Bodies }

\* variant: the put carries no ConditionExpression
ConditionHolds_Unconditional(table, item) == TRUE

\* ConditionExpression attribute_not_exists(pk): evaluated against the item
\* that has the same primary key as the item being put
ConditionHolds(table, item) == ~ \E r \in table : TableKey(r) = TableKey(item)

\* put_item: the new item replaces an item with the same primary key
put_item(table, item) == { r \in table : TableKey(r) # TableKey(item) } \cup { item }

\* variant: the summary is updated for every PullRequestEvent, whatever its action
QualifiesForSummary_AnyAction(pe) == pe.type = "PullRequestEvent"

\* variant: the guard looks at the action only, whatever attribute carries it
QualifiesForSummary_AnyOpened(pe) == pe.pr_action = "opened" \/ pe.action = "opened"

\* guard of the summary update after a successful insert
QualifiesForSummary(pe) == pe.type = "PullRequestEvent" /\ pe.pr_action = "opened"

(***************************************************************************)
(* Processor state machine                                                 *)
(***************************************************************************)
IdleInv == [stage |-> "idle", batch |-> << >>, i |-> 0, results |-> << >>, now |-> 0,
            response |-> NoRecord]

InitProcessor ==
    /\ processed_events = {}
    /\ summary = [r \in Repos |-> 0]
    /\ sent \in QueueContents
    /\ deleted = {}
    /\ inv = [p \in Procs |-> IdleInv]
    /\ clock = 0
    /\ delivered = 0
    /\ hist = [k \in Keys |-> [inserted |-> 0, incs |-> 0, missed |-> 0, rejected |-> 0, cut |-> 0]]

Undeleted == { m \in 1..Len(sent) : m \notin deleted }

\* the batches the transport can deliver: distinct messages in any order
BatchesOf(S) ==
    UNION { { s \in [1..n -> S] : \A i, j \in 1..n : i # j => s[i] # s[j] } :
            n \in 1..Cardinality(S) }

\* the transport invokes lambda_handler with a batch of not yet deleted
\* messages (a message in flight elsewhere may be delivered again)
Receive(p, batch) ==
    /\ inv[p].stage = "idle"
    /\ \A q \in Procs : q < p => inv[q].stage # "idle"    \* the first free slot
    /\ delivered + Len(batch) <= MaxRecords
    /\ delivered' = delivered + Len(batch)
    /\ clock' = clock + 1
    /\ inv' = [inv EXCEPT ![p] = [stage |-> "store", batch |-> batch, i |-> 1,
                                  results |-> << >>, now |-> clock + 1, response |-> NoRecord]]
    /\ UNCHANGED << processed_events, summary, sent, deleted, hist,
                    pollerVars, filterVars, statsVars, timelineVars >>

CurrentEvent(p) == sent[inv[p].batch[inv[p].i]]
CurrentProcessed(p) == process_github_event(CurrentEvent(p), inv[p].now)

\* continue the for-loop of lambda_handler with the next record
NextRecord(p, result) ==
    [inv[p] EXCEPT !.stage = "store", !.i = inv[p].i + 1,
                   !.results = Append(inv[p].results, result)]

\* store_processed_event: the conditional put_item succeeds
PutInserted(p) ==
    LET pe == CurrentProcessed(p)
        item == StoreItem(pe)
        k == TableKey(item)
    IN  /\ inv[p].stage = "store"
        /\ inv[p].i <= Len(inv[p].batch)
        /\ ConditionHolds(processed_events, item)
        /\ processed_events' = put_item(processed_events, item)
        /\ hist' = [hist EXCEPT ![k].inserted = @ + 1]
        /\ inv' = [inv EXCEPT ![p] = IF QualifiesForSummary(pe)
                                      THEN [inv[p] EXCEPT !.stage = "summary"]
                                      ELSE NextRecord(p, "inserted")]
        /\ UNCHANGED << summary, sent, deleted, clock, delivered,
                    pollerVars, filterVars, statsVars, timelineVars >>

\* variant: the summary update sits after the try block, so a duplicate of a
\* qualifying event reaches it too
PutDuplicate_StillCounts(p) ==
    LET pe == CurrentProcessed(p)
        item == StoreItem(pe)
    IN  /\ inv[p].stage = "store"
        /\ inv[p].i <= Len(inv[p].batch)
        /\ ~ ConditionHolds(processed_events, item)
        /\ inv' = [inv EXCEPT ![p] = IF QualifiesForSummary(pe)
                                      THEN [inv[p] EXCEPT !.stage = "summary"]
                                      ELSE NextRecord(p, "duplicate")]
        /\ UNCHANGED << processed_events, summary, sent, deleted, clock, delivered, hist,
                        pollerVars, filterVars, statsVars, timelineVars >>

\* variant: the write is an upsert, a duplicate delivery overwrites the row
\* with the item of the later invocation
PutDuplicate_Refreshes(p) ==
    LET pe == CurrentProcessed(p)
        item == StoreItem(pe)
    IN  /\ inv[p].stage = "store"
        /\ inv[p].i <= Len(inv[p].batch)
        /\ ~ ConditionHolds(processed_events, item)
        /\ processed_events' = put_item(processed_events, item)
        /\ inv' = [inv EXCEPT ![p] = NextRecord(p, "duplicate")]
        /\ UNCHANGED << summary, sent, deleted, clock, delivered, hist,
                        pollerVars, filterVars, statsVars, timelineVars >>

\* store_processed_event: ConditionalCheckFailedException, returns False
PutDuplicate(p) ==
    LET pe == CurrentProcessed(p)
        item == StoreItem(pe)
    IN  /\ inv[p].stage = "store"
        /\ inv[p].i <= Len(inv[p].batch)
        /\ ~ ConditionHolds(processed_events, item)
        /\ inv' = [inv EXCEPT ![p] = NextRecord(p, "duplicate")]
        /\ UNCHANGED << processed_events, summary, sent, deleted, clock, delivered, hist,
                    pollerVars, filterVars, statsVars, timelineVars >>

\* variant: the try block encloses the whole for-loop, so the first failing
\* record ends the loop
PutFailed_Aborts(p) ==
    /\ inv[p].stage = "store"
    /\ inv[p].i <= Len(inv[p].batch)
    /\ hist' = [hist EXCEPT ![TableKey(StoreItem(CurrentProcessed(p)))].rejected = 1]
    /\ inv' = [inv EXCEPT ![p] = [inv[p] EXCEPT !.i = Len(inv[p].batch) + 1,
                                                !.results = Append(inv[p].results, "failed")]]
    /\ UNCHANGED << processed_events, summary, sent, deleted, clock, delivered,
                    pollerVars, filterVars, statsVars, timelineVars >>

\* variant: the counter update is issued before the conditional put, so a
\* put that fails leaves the increment behind
PutFailed_CountsFirst(p) ==
    LET pe == CurrentProcessed(p)
    IN  /\ inv[p].stage = "store"
        /\ inv[p].i <= Len(inv[p].batch)
        /\ summary' = IF QualifiesForSummary(pe)
                      THEN [summary EXCEPT ![pe.repo_name] = @ + 1] ELSE summary
        /\ hist' = [hist EXCEPT ![TableKey(StoreItem(pe))].rejected = 1]
        /\ inv' = [inv EXCEPT ![p] = NextRecord(p, "failed")]
        /\ UNCHANGED << processed_events, sent, deleted, clock, delivered,
                        pollerVars, filterVars, statsVars, timelineVars >>

\* put_item raises another error: store_processed_event re-raises, the
\* except clause of lambda_handler records the record as failed
PutFailed(p) ==
    /\ inv[p].stage = "store"
    /\ inv[p].i <= Len(inv[p].batch)
    /\ hist' = [hist EXCEPT ![TableKey(StoreItem(CurrentProcessed(p)))].rejected = 1]
    /\ inv' = [inv EXCEPT ![p] = NextRecord(p, "failed")]
    /\ UNCHANGED << processed_events, summary, sent, deleted, clock, delivered,
                    pollerVars, filterVars, statsVars, timelineVars >>

\* variant: UpdateExpression 'SET opened_pr_count = :inc' instead of ADD
SummaryUpdated_Set(p) ==
    LET pe == CurrentProcessed(p)
        k == TableKey(StoreItem(pe))
    IN  /\ inv[p].stage = "summary"
        /\ summary' = [summary EXCEPT ![pe.repo_name] = 1]
        /\ hist' = [hist EXCEPT ![k].incs = @ + 1]
        /\ inv' = [inv EXCEPT ![p] = NextRecord(p, "inserted")]
        /\ UNCHANGED << processed_events, sent, deleted, clock, delivered,
                    pollerVars, filterVars, statsVars, timelineVars >>

\* update_item ADD opened_pr_count :inc succeeds
SummaryUpdated(p) ==
    LET pe == CurrentProcessed(p)
        k == TableKey(StoreItem(pe))
    IN  /\ inv[p].stage = "summary"
        /\ summary' = [summary EXCEPT ![pe.repo_name] = @ + 1]
        /\ hist' = [hist EXCEPT ![k].incs = @ + 1]
        /\ inv' = [inv EXCEPT ![p] = NextRecord(p, "inserted")]
        /\ UNCHANGED << processed_events, sent, deleted, clock, delivered,
                    pollerVars, filterVars, statsVars, timelineVars >>

\* variant: no inner try around update_item, its exception reaches the
\* except clause of lambda_handler
SummaryFailed_Propagates(p) ==
    LET pe == CurrentProcessed(p)
        k == TableKey(StoreItem(pe))
    IN  /\ inv[p].stage = "summary"
        /\ hist' = [hist EXCEPT ![k].missed = @ + 1]
        /\ inv' = [inv EXCEPT ![p] = NextRecord(p, "failed")]
        /\ UNCHANGED << processed_events, summary, sent, deleted, clock, delivered,
                    pollerVars, filterVars, statsVars, timelineVars >>

\* update_item raises: logged and swallowed, store_processed_event returns True
SummaryFailed(p) ==
    LET pe == CurrentProcessed(p)
        k == TableKey(StoreItem(pe))
    IN  /\ inv[p].stage = "summary"
        /\ hist' = [hist EXCEPT ![k].missed = @ + 1]
        /\ inv' = [inv EXCEPT ![p] = NextRecord(p, "inserted")]
        /\ UNCHANGED << processed_events, summary, sent, deleted, clock, delivered,
                    pollerVars, filterVars, statsVars, timelineVars >>

CountOf(results, S) == Cardinality({ j \in 1..Len(results) : results[j] \in S })

\* variant: process_github_event raises on a False from store_processed_event,
\* so a duplicate lands in failed_events
Response_DuplicatesFail(results) ==
    [statusCode |-> 200,
     processed |-> CountOf(results, {"inserted"}),
     failed |-> CountOf(results, {"failed", "duplicate"})]

\* the return statement of lambda_handler
Response(results) ==
    [statusCode |-> 200,
     processed |-> CountOf(results, {"inserted", "duplicate"}),
     failed |-> CountOf(results, {"failed"})]

\* the return statement of lambda_handler is reached: no exception escapes
HandlerReturn(p) ==
    /\ inv[p].stage = "store"
    /\ inv[p].i > Len(inv[p].batch)
    /\ inv' = [inv EXCEPT ![p].stage = "returned", ![p].response = Response(inv[p].results)]
    /\ UNCHANGED << processed_events, summary, sent, deleted, clock, delivered, hist,
                    pollerVars, filterVars, statsVars, timelineVars >>

\* messages the event source keeps in the queue after a normal return: the
\* response carries counts only and names no record, so none
KeptAfterReturn(batch, response) == {}

\* the event source settles a returned invocation: every message of the
\* batch that is not kept is deleted
Acknowledge(p) ==
    /\ inv[p].stage = "returned"
    /\ deleted' = deleted \cup ({ inv[p].batch[j] : j \in 1..Len(inv[p].batch) }
                                \ KeptAfterReturn(inv[p].batch, inv[p].response))
    /\ inv' = [inv EXCEPT ![p] = IdleInv]
    /\ UNCHANGED << processed_events, summary, sent, clock, delivered, hist,
                    pollerVars, filterVars, statsVars, timelineVars >>

\* the invocation dies (timeout, runtime crash) between the insert and the
\* counter update, or before it returns: nothing is deleted, the messages
\* become visible again (a death earlier in the loop acts like the death of
\* an invocation that was handed a shorter batch)
Crash(p) ==
    /\ \/ inv[p].stage = "summary"
       \/ inv[p].stage = "store" /\ inv[p].i > Len(inv[p].batch)
    /\ hist' = IF inv[p].stage = "summary"
               THEN [hist EXCEPT ![TableKey(StoreItem(CurrentProcessed(p)))].missed = @ + 1,
                                 ![TableKey(StoreItem(CurrentProcessed(p)))].cut = 1]
               ELSE hist
    /\ inv' = [inv EXCEPT ![p] = IdleInv]
    /\ UNCHANGED << processed_events, summary, sent, deleted, clock, delivered,
                    pollerVars, filterVars, statsVars, timelineVars >>


Next ==
    \/ \E p \in Procs : \E batch \in BatchesOf(Undeleted) : Receive(p, batch)
    \/ \E p \in Procs : PutInserted(p)
    \/ \E p \in Procs : PutDuplicate(p)
    \/ \E p \in Procs : PutFailed(p)
    \/ \E p \in Procs : SummaryUpdated(p)
    \/ \E p \in Procs : SummaryFailed(p)
    \/ \E p \in Procs : HandlerReturn(p)
    \/ \E p \in Procs : Acknowledge(p)
    \/ \E p \in Procs : Crash(p)

(***************************************************************************)
(* EventPoller: pure parts                                                 *)
(***************************************************************************)
INTERESTED_EVENTS == {"WatchEvent", "PullRequestEvent", "IssuesEvent"}
BATCH_SIZE == 10
SEEN_CAP == 100
PER_PAGE == 100
DEFAULT_POLL_INTERVAL == 60

InSeq(x, s) == \E j \in 1..Len(s) : s[j] = x

\* the for-loop of filter_new_events: break at the first known id, keep the
\* events of an interesting type met before it
RECURSIVE FilterLoop(_, _, _, _)
FilterLoop(events, last_seen_ids, i, new_events) ==
    IF i > Len(events) THEN new_events
    ELSE IF InSeq(events[i].id, last_seen_ids) THEN new_events
    ELSE FilterLoop(events, last_seen_ids, i + 1,
                    IF events[i].type \in INTERESTED_EVENTS
                    THEN Append(new_events, events[i]) ELSE new_events)

\* variant: a known id is skipped (continue) instead of ending the walk (break)
RECURSIVE FilterLoop_Continue(_, _, _, _)
FilterLoop_Continue(events, last_seen_ids, i, new_events) ==
    IF i > Len(events) THEN new_events
    ELSE FilterLoop_Continue(events, last_seen_ids, i + 1,
                             IF /\ ~ InSeq(events[i].id, last_seen_ids)
                                /\ events[i].type \in INTERESTED_EVENTS
                             THEN Append(new_events, events[i]) ELSE new_events)

filter_new_events_Continue(events, last_seen_ids) ==
    FilterLoop_Continue(events, last_seen_ids, 1, << >>)

filter_new_events(events, last_seen_ids) == FilterLoop(events, last_seen_ids, 1, << >>)

Min(a, b) == IF a < b THEN a ELSE b

\* variant: batches are cut one event too long
Slice_OneTooMany(events, i) == SubSeq(events, i + 1, Min(i + BATCH_SIZE + 1, Len(events)))

\* events[i : i + BATCH_SIZE] with 0-based i
Slice(events, i) == SubSeq(events, i + 1, Min(i + BATCH_SIZE, Len(events)))

\* event.get("repo", {}).get("name", "unknown")
RepoNameOf(event) == IF event.repo = NoRecord THEN "unknown" ELSE event.repo.name

\* event.get("actor", {}).get("login", "unknown")
ActorLoginOf(event) == IF event.actor = NoRecord THEN "unknown" ELSE event.actor.login

\* one entry of send_message_batch
Entry(event) ==
    [Id |-> << "github_", event.id >>,
     MessageBody |-> [id |-> event.id, type |-> event.type, actor |-> event.actor,
                      repo |-> event.repo, source |-> "github_events_api"],
     MessageAttributes |-> [eventType |-> event.type, repoName |-> RepoNameOf(event),
                            actorLogin |-> ActorLoginOf(event)]]

Entries(batch) == [j \in 1..Len(batch) |-> Entry(batch[j])]

\* [event["id"] for event in result["events"][:100]]
\* variant: the slice keeps the tail of the page
LastSeenIds_KeepsOldest(events) ==
    [j \in 1..Min(SEEN_CAP, Len(events)) |->
        events[Len(events) - Min(SEEN_CAP, Len(events)) + j].id]

\* variant: the slice starts one place late and leaves out the newest id
LastSeenIds_DropsNewest(events) ==
    [j \in 1..Min(SEEN_CAP, Len(events) - 1) |-> events[j + 1].id]

LastSeenIds(events) == [j \in 1..Min(SEEN_CAP, Len(events)) |-> events[j].id]

\* the state lambda_handler hands to update_poll_state, as the stored item
NewPollState(result, now) ==
    [id |-> "github_events_poll_state", etag |-> result.etag,
     last_seen_ids |-> LastSeenIds(result.events),
     poll_interval |-> result.poll_interval, last_poll |-> now]

DefaultPollState ==
    [etag |-> NoETag, last_seen_ids |-> << >>,
     poll_interval |-> DEFAULT_POLL_INTERVAL, last_poll |-> NoTime]

\* get_poll_state: the stored item, the default when there is none or when
\* the read raises
get_poll_state(table, readOk) ==
    IF readOk /\ table # {} THEN CHOOSE item \in table : TRUE ELSE DefaultPollState


(***************************************************************************)
(* Upstream feed (collaborator): event ids are 1, 2, ... in arrival order, *)
(* the type of id k follows the pattern chosen initially, the ETag changes *)
(* with every arrival.                                                     *)
(***************************************************************************)
MaxEvents == 11      \* events the upstream produces in one behaviour
MaxPolls  == 2       \* polls started in one behaviour

Patterns == { << "PullRequestEvent" >>,
              << "WatchEvent", "PushEvent" >>,
              << "PushEvent", "IssuesEvent", "PullRequestEvent" >> }
\* x-poll-interval header of a 200 answer: the upstream's suggestion varies
\* with its load, here with the number of events it holds
PollIntervalOf(f) == IF f.n % 2 = 0 THEN 60 ELSE 120
ResetTimes == {1700000000}

TypeOf(f, id) == f.pattern[((id - 1) % Len(f.pattern)) + 1]
FeedETag(f) == << "W/", f.n >>

\* repo and actor of the event with a given id; the feed may leave either out
RepoOf(id) == IF id % 3 = 0 THEN NoRecord
              ELSE [name |-> IF id % 2 = 0 THEN "octo/repo" ELSE "octocat/hello-world"]
ActorOf(id) == IF id % 4 = 0 THEN NoRecord ELSE [login |-> "octocat"]

FeedEvent(f, id) == [id |-> id, type |-> TypeOf(f, id), repo |-> RepoOf(id), actor |-> ActorOf(id)]

\* body of a 200 answer: the per_page most recent events, newest first
FeedEvents(f) == [j \in 1..Min(PER_PAGE, f.n) |-> FeedEvent(f, f.n - j + 1)]

HttpErrors ==
    { [status |-> 403, remaining |-> "0", reset |-> t] : t \in ResetTimes } \cup
    { [status |-> 403, remaining |-> "59", reset |-> t] : t \in ResetTimes } \cup
    { [status |-> 500, remaining |-> "59", reset |-> t] : t \in ResetTimes }

\* what requests.get can produce for the headers poll_github_events sends
Answers(f, if_none_match) ==
    ( IF if_none_match # NoETag /\ if_none_match = FeedETag(f)
      THEN { [kind |-> "response", status |-> 304] }
      ELSE { [kind |-> "response", status |-> 200, etag |-> FeedETag(f),
              events |-> FeedEvents(f), poll_interval |-> PollIntervalOf(f)] } )
    \cup { [kind |-> "response", status |-> h.status, remaining |-> h.remaining,
            reset |-> h.reset] : h \in HttpErrors }
    \cup { [kind |-> "exception", exc |-> "ConnectionError"] }

\* If-None-Match header poll_github_events sends for a poll state
IfNoneMatch(poll_state) == poll_state.etag

\* str() of the HTTPError raise_for_status builds
ErrorText(status) == IF status < 500 THEN << status, "Client Error" >>
                                     ELSE << status, "Server Error" >>

\* poll_github_events: the returned dict, or the exception it lets escape
\* (raise_for_status raises HTTPError, whose text names the status only)
poll_github_events(poll_state, answer) ==
    IF answer.kind = "exception"
    THEN [raised |-> TRUE, errorType |-> answer.exc, errorMessage |-> << 0, "connection failed" >>,
          response |-> NoRecord]
    ELSE IF answer.status = 304 THEN [raised |-> FALSE, not_modified |-> TRUE]
    ELSE IF answer.status >= 400
    THEN [raised |-> TRUE, errorType |-> "HTTPError", errorMessage |-> ErrorText(answer.status),
          response |-> [kind |-> "response", status_code |-> answer.status, remaining |-> answer.remaining,
                        reset |-> answer.reset]]
    ELSE [raised |-> FALSE, not_modified |-> FALSE, events |-> answer.events,
          etag |-> answer.etag, poll_interval |-> answer.poll_interval]

\* except requests.exceptions.RequestException: the lines logged before `raise e`
RateLimitLog(e) ==
    IF e.response # NoRecord /\ e.response.status_code = 403 /\ e.response.remaining = "0"
    THEN { << "Rate limited until", e.response.reset >> } ELSE {}

\* `raise e` / `raise` out of lambda_handler: the invocation error the Lambda
\* runtime reports to the caller is the exception's type and text
RaisedOutcome(e) ==
    [kind |-> "error", errorType |-> e.errorType, errorMessage |-> e.errorMessage]

NotModifiedOutcome == [kind |-> "ok", statusCode |-> 200, message |-> "No new events",
                       cached |-> TRUE]

ProcessedOutcome(result, new_events) ==
    [kind |-> "ok", statusCode |-> 200, total_events |-> Len(result.events),
     new_events |-> Len(new_events), next_poll_in |-> result.poll_interval]

(***************************************************************************)
(* Poller state machine (one poll at a time)                               *)
(***************************************************************************)
IdlePoll == [stage |-> "idle", result |-> NoRecord, new_events |-> << >>, i |-> 0,
             cause |-> NoRecord, outcome |-> NoRecord, before |-> NoRecord]

\* what the stores held when the poll started (kept for the properties)
Before == [cursor |-> cursor, calls |-> Len(queue_calls)]

\* lambda_handler has returned or raised: the outcome handed to the caller,
\* with the upstream answer that led to it
Returned(running, outcome) == [running EXCEPT !.stage = "returned", !.outcome = outcome]

\* the locals of lambda_handler once poll_github_events has answered
Fetched(answer, result, new_events) ==
    [stage |-> "send", result |-> result, new_events |-> new_events, i |-> 0,
     cause |-> answer, outcome |-> NoRecord, before |-> Before]

\* the fetched page holds none of the ids of the stored seen-id list
Gap(events, table) ==
    \E c \in table : \A j \in 1..Len(events) : ~ InSeq(events[j].id, c.last_seen_ids)

\* the history after one more mishap: "clean" as long as nothing went wrong,
\* "store" once a read of the stored cursor or a write of the cursor has
\* failed, "broken" once a fetch or a publish has failed or a page has come
\* without any stored id
After(history, mishap) ==
    IF history = "broken" \/ mishap = "broken" THEN "broken"
    ELSE IF history = "store" \/ mishap = "store" THEN "store"
    ELSE "clean"

\* get_poll_state fell back to the defaults although a cursor is stored
ReadMishap(readOk) == IF ~ readOk /\ cursor # {} THEN "store" ELSE "clean"

\* a 200 answer whose page shares no id with the stored seen-id list
PageMishap(result) == IF Gap(result.events, cursor) THEN "broken" ELSE "clean"

InitPoller ==
    /\ \E pat \in Patterns : feed = [n |-> 0, pattern |-> pat]
    /\ cursor = {}
    /\ poll = IdlePoll
    /\ queue_calls = << >>
    /\ log = {}
    /\ polls = 0
    /\ past = "clean"

\* the upstream publishes one more event (an arrival during a poll has the
\* effect of one right after it: the poll has already read the feed)
FeedArrive ==
    /\ feed.n < MaxEvents
    /\ poll.stage = "idle"
    /\ feed' = [feed EXCEPT !.n = @ + 1]
    /\ UNCHANGED << cursor, poll, queue_calls, log, polls, past, procVars, filterVars, statsVars, timelineVars >>

CanStartPoll == poll.stage = "idle" /\ polls < MaxPolls

\* variant: no early return on 304, the handler goes on to update_poll_state
\* with an empty result
PollNotModified_FallsThrough(readOk, answer) ==
    LET poll_state == get_poll_state(cursor, readOk)
        result == poll_github_events(poll_state, answer)
    IN  /\ CanStartPoll
        /\ ~ result.raised /\ result.not_modified
        /\ polls' = polls + 1
        /\ log' = {}
        /\ cursor' = { NewPollState([etag |-> NoETag, events |-> << >>,
                                      poll_interval |-> DEFAULT_POLL_INTERVAL], polls + 1) }
        /\ poll' = Returned(Fetched(answer, result, << >>), NotModifiedOutcome)
        /\ past' = After(past, ReadMishap(readOk))
        /\ UNCHANGED << feed, queue_calls, procVars, filterVars, statsVars, timelineVars >>

\* lambda_handler, 304: early return
PollNotModified(readOk, answer) ==
    LET poll_state == get_poll_state(cursor, readOk)
        result == poll_github_events(poll_state, answer)
    IN  /\ CanStartPoll
        /\ ~ result.raised /\ result.not_modified
        /\ polls' = polls + 1
        /\ log' = {}
        /\ poll' = Returned(Fetched(answer, result, << >>), NotModifiedOutcome)
        /\ past' = After(past, ReadMishap(readOk))
        /\ UNCHANGED << feed, cursor, queue_calls, procVars, filterVars, statsVars, timelineVars >>

\* variant: the except clause drops the stored cursor to force a full refetch
PollFetchFails_ResetsCursor(readOk, answer) ==
    LET poll_state == get_poll_state(cursor, readOk)
        result == poll_github_events(poll_state, answer)
    IN  /\ CanStartPoll
        /\ result.raised
        /\ polls' = polls + 1
        /\ log' = RateLimitLog(result)
        /\ cursor' = {}
        /\ poll' = Returned(Fetched(answer, result, << >>), RaisedOutcome(result))
        /\ past' = "broken"
        /\ UNCHANGED << feed, queue_calls, procVars, filterVars, statsVars, timelineVars >>

\* lambda_handler, the fetch raises a RequestException: log, re-raise
PollFetchFails(readOk, answer) ==
    LET poll_state == get_poll_state(cursor, readOk)
        result == poll_github_events(poll_state, answer)
    IN  /\ CanStartPoll
        /\ result.raised
        /\ polls' = polls + 1
        /\ log' = RateLimitLog(result)
        /\ poll' = Returned(Fetched(answer, result, << >>), RaisedOutcome(result))
        /\ past' = "broken"
        /\ UNCHANGED << feed, cursor, queue_calls, procVars, filterVars, statsVars, timelineVars >>

\* variant: the `if new_events:` guard is missing, the cursor is written
\* after every successful fetch
PollNothingNew_WritesCursor(readOk, answer) ==
    LET poll_state == get_poll_state(cursor, readOk)
        result == poll_github_events(poll_state, answer)
    IN  /\ CanStartPoll
        /\ ~ result.raised /\ ~ result.not_modified
        /\ filter_new_events(result.events, poll_state.last_seen_ids) = << >>
        /\ polls' = polls + 1
        /\ log' = {}
        /\ cursor' = { NewPollState(result, polls + 1) }
        /\ poll' = Returned(Fetched(answer, result, << >>), ProcessedOutcome(result, << >>))
        /\ past' = After(After(past, ReadMishap(readOk)), PageMishap(result))
        /\ UNCHANGED << feed, queue_calls, procVars, filterVars, statsVars, timelineVars >>

\* lambda_handler, 200 but filter_new_events returns nothing: plain return
PollNothingNew(readOk, answer) ==
    LET poll_state == get_poll_state(cursor, readOk)
        result == poll_github_events(poll_state, answer)
    IN  /\ CanStartPoll
        /\ ~ result.raised /\ ~ result.not_modified
        /\ filter_new_events(result.events, poll_state.last_seen_ids) = << >>
        /\ polls' = polls + 1
        /\ log' = {}
        /\ poll' = Returned(Fetched(answer, result, << >>), ProcessedOutcome(result, << >>))
        /\ past' = After(After(past, ReadMishap(readOk)), PageMishap(result))
        /\ UNCHANGED << feed, cursor, queue_calls, procVars, filterVars, statsVars, timelineVars >>

\* variant: update_poll_state is called before send_events_to_sqs
PollFoundNew_UpdatesFirst(readOk, answer) ==
    LET poll_state == get_poll_state(cursor, readOk)
        result == poll_github_events(poll_state, answer)
    IN  /\ CanStartPoll
        /\ ~ result.raised /\ ~ result.not_modified
        /\ filter_new_events(result.events, poll_state.last_seen_ids) # << >>
        /\ polls' = polls + 1
        /\ log' = {}
        /\ cursor' = { NewPollState(result, polls + 1) }
        /\ poll' = Fetched(answer, result,
                            filter_new_events(result.events, poll_state.last_seen_ids))
        /\ past' = After(After(past, ReadMishap(readOk)), PageMishap(result))
        /\ UNCHANGED << feed, queue_calls, procVars, filterVars, statsVars, timelineVars >>

\* lambda_handler, 200 with new events: enter send_events_to_sqs
PollFoundNew(readOk, answer) ==
    LET poll_state == get_poll_state(cursor, readOk)
        result == poll_github_events(poll_state, answer)
    IN  /\ CanStartPoll
        /\ ~ result.raised /\ ~ result.not_modified
        /\ filter_new_events(result.events, poll_state.last_seen_ids) # << >>
        /\ polls' = polls + 1
        /\ log' = {}
        /\ poll' = Fetched(answer, result,
                            filter_new_events(result.events, poll_state.last_seen_ids))
        /\ past' = After(After(past, ReadMishap(readOk)), PageMishap(result))
        /\ UNCHANGED << feed, cursor, queue_calls, procVars, filterVars, statsVars, timelineVars >>

\* entry ids SQS reports in the Failed list of a call that does not raise:
\* none, or the first entry of the call
FailedList(entries, rejectFirst) == IF rejectFirst THEN { entries[1].Id } ELSE {}

\* send_events_to_sqs: one send_message_batch call returns (its response is
\* not inspected); the loop goes on, after the last call update_poll_state
SendBatch(rejectFirst) ==
    LET batch == Slice(poll.new_events, poll.i)
        entries == Entries(batch)
    IN  /\ poll.stage = "send"
        /\ queue_calls' = Append(queue_calls,
                                 [poll |-> polls, entries |-> entries,
                                  Failed |-> FailedList(entries, rejectFirst)])
        /\ poll' = [poll EXCEPT !.i = poll.i + BATCH_SIZE,
                                !.stage = IF poll.i + BATCH_SIZE >= Len(poll.new_events)
                                          THEN "update" ELSE "send"]
        /\ past' = IF rejectFirst THEN "broken" ELSE past
        /\ UNCHANGED << feed, cursor, log, polls, procVars, filterVars, statsVars, timelineVars >>

\* variant: the dispatch is transactional, a raising sub-batch takes back
\* the sub-batches this poll has already published
SendBatchRaises_RollsBack ==
    /\ poll.stage = "send"
    /\ queue_calls' = SubSeq(queue_calls, 1, poll.before.calls)
    /\ poll' = Returned(poll, RaisedOutcome([errorType |-> "ClientError",
                                             errorMessage |-> << 0, "send_message_batch" >>]))
    /\ past' = "broken"
    /\ UNCHANGED << feed, cursor, log, polls, procVars, filterVars, statsVars, timelineVars >>

\* send_message_batch raises: `except Exception` re-raises
SendBatchRaises ==
    /\ poll.stage = "send"
    /\ poll' = Returned(poll, RaisedOutcome([errorType |-> "ClientError",
                                             errorMessage |-> << 0, "send_message_batch" >>]))
    /\ past' = "broken"
    /\ UNCHANGED << feed, cursor, queue_calls, log, polls, procVars, filterVars, statsVars, timelineVars >>

\* update_poll_state succeeds, lambda_handler returns
UpdatePollState ==
    /\ poll.stage = "update"
    /\ cursor' = { NewPollState(poll.result, polls) }
    /\ poll' = Returned(poll, ProcessedOutcome(poll.result, poll.new_events))
    /\ UNCHANGED << feed, queue_calls, log, polls, past, procVars, filterVars, statsVars, timelineVars >>

\* the put_item of update_poll_state raises
UpdatePollStateRaises ==
    /\ poll.stage = "update"
    /\ poll' = Returned(poll, RaisedOutcome([errorType |-> "ClientError",
                                             errorMessage |-> << 0, "put_item" >>]))
    /\ past' = After(past, "store")
    /\ UNCHANGED << feed, cursor, queue_calls, log, polls, procVars, filterVars, statsVars, timelineVars >>

\* the invocation is over: its outcome and log lines are with the caller
PollEnd ==
    /\ poll.stage = "returned"
    /\ poll' = IdlePoll
    /\ log' = {}
    /\ UNCHANGED << feed, cursor, queue_calls, polls, past, procVars, filterVars, statsVars, timelineVars >>

\* the answers a poll can get when its read of the poll state went as readOk
AnswersFor(readOk) == Answers(feed, IfNoneMatch(get_poll_state(cursor, readOk)))

NextPoller ==
    \/ FeedArrive
    \/ \E readOk \in BOOLEAN : \E answer \in AnswersFor(readOk) : PollNotModified(readOk, answer)
    \/ \E readOk \in BOOLEAN : \E answer \in AnswersFor(readOk) : PollFetchFails(readOk, answer)
    \/ \E readOk \in BOOLEAN : \E answer \in AnswersFor(readOk) : PollNothingNew(readOk, answer)
    \/ \E readOk \in BOOLEAN : \E answer \in AnswersFor(readOk) : PollFoundNew(readOk, answer)
    \/ \E rejectFirst \in BOOLEAN : SendBatch(rejectFirst)
    \/ SendBatchRaises
    \/ UpdatePollState
    \/ UpdatePollStateRaises
    \/ PollEnd

(***************************************************************************)
(* filter_new_events on arbitrary bounded inputs                           *)
(***************************************************************************)
MaxLen  == 3     \* length of the fetched batch
FilterIds == {1, 2, 3}
FilterTypes == INTERESTED_EVENTS \cup {"PushEvent"}

SeqsUpTo(S, n) == UNION { [1..m -> S] : m \in 0..n }

\* the seen-id lists: every set of ids, listed most recent (largest) first
RECURSIVE ListOf(_)
ListOf(S) ==
    IF S = {} THEN << >>
    ELSE LET m == CHOOSE x \in S : \A y \in S : y <= x IN << m >> \o ListOf(S \ {m})

SeenLists == { ListOf(S) : S \in SUBSET FilterIds }

InitFilter ==
    /\ f_events \in SeqsUpTo([id : FilterIds, type : FilterTypes], MaxLen)
    /\ f_seen \in SeenLists
    /\ f_result = [done |-> FALSE, value |-> << >>]

ApplyFilter ==
    /\ ~ f_result.done
    /\ f_result' = [done |-> TRUE, value |-> filter_new_events(f_events, f_seen)]
    /\ UNCHANGED << f_events, f_seen, procVars, pollerVars, statsVars, timelineVars >>

NextFilter == ApplyFilter

(***************************************************************************)
(* the seen-id list lambda_handler stores, for a fetched page of any       *)
(* length: the slice does not rely on the upstream honouring per_page      *)
(***************************************************************************)
MaxFetched == 102    \* length of the fetched page

\* a page of n events, most recent (largest id) first
PageOf(n) ==
    [j \in 1..n |-> [id |-> n + 1 - j,
                     type |-> IF j % 2 = 0 THEN "WatchEvent" ELSE "PullRequestEvent"]]

InitSeen ==
    /\ f_events \in { PageOf(n) : n \in 0..MaxFetched }
    /\ f_seen = << >>
    /\ f_result = [done |-> FALSE, value |-> << >>]

\* lines 48-57: the poll state built from the fetched page
StoreSeenIds ==
    /\ ~ f_result.done
    /\ f_result' = [done |-> TRUE,
                    value |-> NewPollState([etag |-> << "E", Len(f_events) >>,
                                            events |-> f_events,
                                            poll_interval |-> DEFAULT_POLL_INTERVAL],
                                           1).last_seen_ids]
    /\ UNCHANGED << f_events, f_seen, procVars, pollerVars, statsVars, timelineVars >>

NextSeen == StoreSeenIds

(***************************************************************************)
(* StatisticsAPI: GET /metrics/pr-average                                  *)
(* Strings that the code takes apart are sequences of characters; a        *)
(* created_at is << hour, minute, second >> of 2025-08-23 UTC; a float is  *)
(* kept as an exact fraction until round(x, 2), whose result is a number   *)
(* of hundredths.                                                          *)
(***************************************************************************)
Null == << >>                 \* JSON null (None)
Number(hundredths) == << hundredths >>

Alnum == { "o", "r", "x", "y", "1" }
NameChars == Alnum \cup { ".", "_", "-" }

\* "sub in s" for strings
Contains(s, sub) ==
    \E j \in 1..(Len(s) - Len(sub) + 1) : SubSeq(s, j, j + Len(sub) - 1) = sub

\* s.split(sep): the parts between the occurrences of the separator
Split(s, sep) ==
    LET cuts == { j \in 1..Len(s) : s[j] = sep }
        Cut(k) == IF k = 0 THEN 0
                  ELSE IF k = Cardinality(cuts) + 1 THEN Len(s) + 1
                  ELSE CHOOSE j \in cuts : Cardinality({ i \in cuts : i < j }) = k - 1
    IN  [k \in 1..(Cardinality(cuts) + 1) |-> SubSeq(s, Cut(k - 1) + 1, Cut(k) - 1)]

\* re.match(pattern, part): first and last character alphanumeric, the
\* others alphanumeric, dot, underscore or hyphen; `$` also matches before
\* a newline that ends the string
MatchesNamePattern(part) ==
    LET core == IF part # << >> /\ part[Len(part)] = "\n"
                THEN SubSeq(part, 1, Len(part) - 1) ELSE part
    IN  /\ core # << >>
        /\ core[1] \in Alnum /\ core[Len(core)] \in Alnum
        /\ \A j \in 1..Len(core) : core[j] \in NameChars

is_valid_github_repo_name(repo_name) ==
    /\ repo_name # << >>
    /\ ~ Contains(repo_name, << ".", "." >>)
    /\ repo_name[1] # "/" /\ repo_name[Len(repo_name)] # "/"
    /\ Len(Split(repo_name, "/")) = 2
    /\ MatchesNamePattern(Split(repo_name, "/")[1])
    /\ MatchesNamePattern(Split(repo_name, "/")[2])
    /\ ~ (Len(Split(repo_name, "/")[1]) > 39 \/ Len(Split(repo_name, "/")[2]) > 100)

\* datetime.fromisoformat(created_at.replace('Z', '+00:00')).timestamp()
\* (1755907200 is 2025-08-23T00:00:00Z)
Timestamp(created_at) == 1755907200 + 3600 * created_at[1] + 60 * created_at[2] + created_at[3]

\* timestamps.sort()
RECURSIVE Insert(_, _)
Insert(x, sorted) ==
    IF sorted = << >> THEN << x >>
    ELSE IF x <= Head(sorted) THEN << x >> \o sorted
    ELSE << Head(sorted) >> \o Insert(x, Tail(sorted))

RECURSIVE Sorted(_)
Sorted(xs) == IF xs = << >> THEN << >> ELSE Insert(Head(xs), Sorted(Tail(xs)))

RECURSIVE Sum(_)
Sum(xs) == IF xs = << >> THEN 0 ELSE Head(xs) + Sum(Tail(xs))

\* round(num / den, 2) in hundredths: to the nearest, a tie to the even one
\* (a tie needs den to be a multiple of 8)
Round2(num, den) ==
    LET q == (100 * num) \div den
        r == (100 * num) % den
    IN  IF 2 * r < den THEN q
        ELSE IF 2 * r > den THEN q + 1
        ELSE IF q % 2 = 0 THEN q ELSE q + 1

IsOpened(e) == e.pr_action = "opened"

\* the timestamps of the events, in the order of the events
TimestampsOf(events) == [j \in 1..Len(events) |-> Timestamp(events[j].created_at)]

\* time_diffs of a list of timestamps
DiffsOf(timestamps) == [j \in 1..(Len(timestamps) - 1) |-> timestamps[j + 1] - timestamps[j]]

\* variant: the timestamps are not sorted before the differences are taken
calculate_average_time_between_pr_NoSort(pr_events) ==
    LET opened == SelectSeq(pr_events, IsOpened)
        used == IF Len(opened) < 2 THEN pr_events ELSE opened
    IN  IF Len(used) < 2 THEN [raised |-> TRUE, error |-> "ValueError"]
        ELSE [raised |-> FALSE, num |-> Sum(DiffsOf(TimestampsOf(used))),
              den |-> Len(used) - 1]

\* calculate_average_time_between_pr: the average as the fraction num / den,
\* or the ValueError it raises
calculate_average_time_between_pr(pr_events) ==
    LET opened == SelectSeq(pr_events, IsOpened)
        used == IF Len(opened) < 2 THEN pr_events ELSE opened
    IN  IF Len(used) < 2 THEN [raised |-> TRUE, error |-> "ValueError"]
        ELSE [raised |-> FALSE, num |-> Sum(DiffsOf(Sorted(TimestampsOf(used)))),
              den |-> Len(used) - 1]

\* get_pr_events_for_repo: the PullRequestEvent partition of the category
\* index, filtered to the repository, all pages
get_pr_events_for_repo(items, repo_name) ==
    SelectSeq(items, LAMBDA it : it.event_type = "PullRequestEvent" /\ it.repo_name = repo_name)

\* the loop of get_pr_events_for_repo when it is not running
IdlePages == [pc |-> "idle", items |-> << >>, last_evaluated_key |-> Null, queries |-> 0]

\* KeyConditionExpression Key('event_type').eq('PullRequestEvent'): the
\* partition of the index the query reads, in the order of the index
PrPartition(items) == SelectSeq(items, LAMBDA it : it.event_type = "PullRequestEvent")

\* ExclusiveStartKey: the place in the partition a query starts after (none
\* on the first query)
StartOf(last_evaluated_key) ==
    IF last_evaluated_key = Null THEN 0 ELSE last_evaluated_key[1]

\* one table.query: the store evaluates the next k rows of the partition,
\* returns those the FilterExpression keeps and, when it stopped before the
\* end (or exactly at it, when more), the key of the last evaluated row
QueryResponse(items, repo_name, last_evaluated_key, k, more) ==
    LET part == PrPartition(items)
        start == StartOf(last_evaluated_key)
    IN  [Items |-> SelectSeq(SubSeq(part, start + 1, start + k),
                             LAMBDA it : it.repo_name = repo_name),
         LastEvaluatedKey |-> IF start + k < Len(part) \/ more
                              THEN Number(start + k) ELSE Null]

create_response(status_code, body) == [statusCode |-> status_code, body |-> body]

InsufficientData(repo_name, opened_events, pr_events) ==
    create_response(200,
        [repository |-> repo_name, pr_count |-> Len(opened_events),
         total_pr_events |-> Len(pr_events), average_time_between_pr |-> Null,
         message |-> "Insufficient data - need at least 2 opened PR events"])

\* the part of handle_pr_average_request after the guard on len(opened_events)
AverageResponse(repo_name, opened_events, pr_events) ==
    LET avg == calculate_average_time_between_pr(opened_events)
    IN  IF avg.raised
        THEN create_response(400, [error |-> "Invalid date format"])
        ELSE create_response(200,
                [repository |-> repo_name, pr_count |-> Len(opened_events),
                 total_pr_events |-> Len(pr_events),
                 average_time_between_pr |-> Number(Round2(avg.num, avg.den)),
                 first_pr_date |-> opened_events[1].created_at,
                 last_pr_date |-> opened_events[Len(opened_events)].created_at])

\* list_repos_with_opened_pr: the scan of the summary table, all pages, with
\* the filter opened_pr_count > min_count; the repositories as a set (the
\* scan fixes no order)
list_repos_with_opened_pr(counters, min_count) ==
    { r \in DOMAIN counters : counters[r] > min_count }

\* the branch of handle_pr_average_request for a request without repo
ListingResponse(counters, storeOk) ==
    IF ~ storeOk
    THEN create_response(500, [error |-> "Failed to retrieve repositories"])
    ELSE LET repos == list_repos_with_opened_pr(counters, 2)
         IN  create_response(200, IF repos # {} THEN [repositories |-> repos] ELSE Null)

\* variant: no guard on the number of opened events before the calculation
handle_pr_average_request_NoGuard(repo_name, items, counters, storeOk) ==
    IF repo_name = << >> THEN ListingResponse(counters, storeOk)
    ELSE IF ~ is_valid_github_repo_name(repo_name)
    THEN create_response(400, [error |-> "Invalid repository name format. Expected owner/repo"])
    ELSE IF ~ storeOk
    THEN create_response(500, [error |-> "Failed to calculate statistics"])
    ELSE LET pr_events == get_pr_events_for_repo(items, repo_name)
             avg == calculate_average_time_between_pr(pr_events)
         IN  IF avg.raised THEN create_response(400, [error |-> "Invalid date format"])
             ELSE create_response(200,
                     [repository |-> repo_name, pr_count |-> Len(SelectSeq(pr_events, IsOpened)),
                      total_pr_events |-> Len(pr_events),
                      average_time_between_pr |-> Number(Round2(avg.num, avg.den))])

\* handle_pr_average_request; repo_name is << >> when the parameter is
\* missing or empty; storeOk: the query of the processed-events table (the
\* scan of the summary table) does not raise
handle_pr_average_request(repo_name, items, counters, storeOk) ==
    IF repo_name = << >> THEN ListingResponse(counters, storeOk)
    ELSE IF ~ is_valid_github_repo_name(repo_name)
    THEN create_response(400, [error |-> "Invalid repository name format. Expected owner/repo"])
    ELSE IF ~ storeOk
    THEN create_response(500, [error |-> "Failed to calculate statistics"])
    ELSE LET pr_events == get_pr_events_for_repo(items, repo_name)
             opened_events == SelectSeq(pr_events, IsOpened)
         IN  IF Len(opened_events) < 2
             THEN InsufficientData(repo_name, opened_events, pr_events)
             ELSE AverageResponse(repo_name, opened_events, pr_events)

\* variant: the repository is looked up before its name is validated
pr_average_store_calls_QueryFirst(repo_name) ==
    IF repo_name = << >> THEN << [op |-> "scan", table |-> "repo-pr-summary"] >>
    ELSE << [op |-> "query", table |-> "processed-github-events",
             event_type |-> "PullRequestEvent"] >>

\* the store operations handle_pr_average_request issues, in order
pr_average_store_calls(repo_name) ==
    IF repo_name = << >> THEN << [op |-> "scan", table |-> "repo-pr-summary"] >>
    ELSE IF ~ is_valid_github_repo_name(repo_name) THEN << >>
    ELSE << [op |-> "query", table |-> "processed-github-events",
             event_type |-> "PullRequestEvent"] >>

(***************************************************************************)
(* StatisticsAPI: GET /metrics/events/count                                *)
(***************************************************************************)
EventTypes == << "WatchEvent", "PullRequestEvent", "IssuesEvent" >>

DigitChars == << "0", "1", "2", "3", "4", "5", "6", "7", "8", "9" >>
IsDigit(c) == \E k \in 1..10 : DigitChars[k] = c
DigitVal(c) == (CHOOSE k \in 1..10 : DigitChars[k] = c) - 1

RECURSIVE DigitsValue(_, _)
DigitsValue(digits, acc) ==
    IF digits = << >> THEN acc
    ELSE DigitsValue(Tail(digits), 10 * acc + DigitVal(Head(digits)))

\* int(offset_str): an optional sign and decimal digits, ValueError otherwise
ParseInt(text) ==
    LET signed == text # << >> /\ Head(text) \in { "-", "+" }
        digits == IF signed THEN Tail(text) ELSE text
    IN  IF digits = << >> \/ \E j \in 1..Len(digits) : ~ IsDigit(digits[j])
        THEN [ok |-> FALSE]
        ELSE [ok |-> TRUE,
              value |-> IF signed /\ Head(text) = "-" THEN 0 - DigitsValue(digits, 0)
                        ELSE DigitsValue(digits, 0)]

\* strftime('%Y-%m-%dT%H:%M:%SZ') of a time of 2025-08-23, in the form a
\* created_at has in the model
Strftime(timestamp) ==
    LET d == timestamp - 1755907200
    IN  << d \div 3600, (d % 3600) \div 60, d % 60 >>

\* string order of two timestamps of that format
RECURSIVE LexLE(_, _)
LexLE(a, b) ==
    IF a = << >> THEN TRUE
    ELSE IF b = << >> THEN FALSE
    ELSE IF Head(a) # Head(b) THEN Head(a) < Head(b)
    ELSE LexLE(Tail(a), Tail(b))

\* the count query of one category: event_type = t and created_at >= cutoff
CountSince(items, event_type, cutoff_iso) ==
    Len(SelectSeq(items, LAMBDA it : it.event_type = event_type
                                     /\ LexLE(cutoff_iso, it.created_at)))

\* variant: the first failing query ends the loop, every count is 0
get_events_by_type_and_time_FailsTogether(items, minutes_offset, failing, now) ==
    LET cutoff_iso == Strftime(Timestamp(now) - 60 * minutes_offset)
    IN  [t \in { EventTypes[k] : k \in 1..3 } |->
            IF failing # {} THEN 0 ELSE CountSince(items, t, cutoff_iso)]

\* get_events_by_type_and_time; failing: the categories whose query raises
get_events_by_type_and_time(items, minutes_offset, failing, now) ==
    LET cutoff_iso == Strftime(Timestamp(now) - 60 * minutes_offset)
    IN  [t \in { EventTypes[k] : k \in 1..3 } |->
            IF t \in failing THEN 0 ELSE CountSince(items, t, cutoff_iso)]

\* query_params.get('offset', '10')
OffsetOf(event) == IF "offset" \in DOMAIN event THEN event.offset ELSE << "1", "0" >>

handle_event_count_request(offset_str, items, failing, now) ==
    LET parsed == ParseInt(offset_str)
    IN  IF ~ parsed.ok
        THEN create_response(400, [error |-> "Offset must be a valid integer"])
        ELSE IF parsed.value < 0
        THEN create_response(400, [error |-> "Offset must be a positive number"])
        ELSE LET event_counts == get_events_by_type_and_time(items, parsed.value, failing, now)
             IN  create_response(200,
                    [offset_minutes |-> parsed.value, event_counts |-> event_counts,
                     total_events |-> Sum([k \in 1..3 |-> event_counts[EventTypes[k]]])])

\* the store operations handle_event_count_request issues, in order: one
\* count query per category, whether or not an earlier one raised
event_count_store_calls(offset_str) ==
    IF ~ ParseInt(offset_str).ok \/ ParseInt(offset_str).value < 0 THEN << >>
    ELSE [k \in 1..3 |-> [op |-> "query", table |-> "processed-github-events",
                          event_type |-> EventTypes[k]]]

IsPrAverageRoute(event) == event.path = "/metrics/pr-average" /\ event.httpMethod = "GET"
IsEventCountRoute(event) == event.path = "/metrics/events/count" /\ event.httpMethod = "GET"

\* lambda_handler of the Statistics API
stats_lambda_handler(event, items, counters, storeOk, failing, now) ==
    IF event.httpMethod = "OPTIONS" THEN create_response(200, [message |-> "CORS preflight"])
    ELSE IF IsPrAverageRoute(event)
    THEN handle_pr_average_request(event.repo, items, counters, storeOk)
    ELSE IF IsEventCountRoute(event)
    THEN handle_event_count_request(OffsetOf(event), items, failing, now)
    ELSE create_response(404, [error |-> "Endpoint not found"])

\* the store operations one request issues
stats_store_calls(event) ==
    IF event.httpMethod = "OPTIONS" THEN << >>
    ELSE IF IsPrAverageRoute(event) THEN pr_average_store_calls(event.repo)
    ELSE IF IsEventCountRoute(event) THEN event_count_store_calls(OffsetOf(event))
    ELSE << >>

(***************************************************************************)
(* Statistics API state machine: one request against a table content       *)
(***************************************************************************)
MaxRows == 4        \* rows the category index returns

RepoA == << "o", "/", "r" >>
RepoB == << "x", "/", "y" >>
BadRepo == << ".", ".", "/", "r" >>

Row(event_type, repo_name, pr_action, created_at) ==
    [event_type |-> event_type, repo_name |-> repo_name, pr_action |-> pr_action,
     created_at |-> created_at]

\* rows of the requested repository and noise (another repository, another
\* category), with the timestamps of the test and one more
StatRows ==
    { Row("PullRequestEvent", RepoA, "opened", t) :
        t \in { << 12, 0, 0 >>, << 12, 10, 0 >>, << 12, 25, 0 >>, << 12, 25, 10 >> } } \cup
    { Row("PullRequestEvent", RepoA, "closed", t) : t \in { << 12, 0, 0 >>, << 12, 25, 10 >> } } \cup
    { Row("PullRequestEvent", RepoB, "opened", << 12, 5, 0 >>),
      Row("WatchEvent", RepoA, Absent, << 12, 7, 0 >>) }

Chars(c, n) == [j \in 1..n |-> c]

\* names the validation is to refuse: a leading and a trailing slash, no
\* slash, two slashes, an owner of 40 and a name of 101 characters
BadNames ==
    { << ".", ".", "/", "r" >>, << "/", "r" >>, << "o", "/" >>, << "o", "r" >>,
      << "o", "/", "r", "/", "x" >>,
      Chars("o", 40) \o << "/", "r" >>, << "o", "/" >> \o Chars("r", 101) }

\* names at the length limits
LongNames == { Chars("o", 39) \o << "/" >> \o Chars("r", 100) }

NameRequests ==
    { [httpMethod |-> "GET", path |-> "/metrics/pr-average", repo |-> r] :
        r \in BadNames \cup LongNames }

StatsRequests ==
    { [httpMethod |-> "GET", path |-> "/metrics/pr-average", repo |-> r] :
        r \in { RepoA, RepoB, BadRepo } } \cup
    { [httpMethod |-> "OPTIONS", path |-> "/metrics/pr-average", repo |-> RepoA],
      [httpMethod |-> "GET", path |-> "/metrics/unknown", repo |-> RepoA] }

\* GET /metrics/events/count without offset and with offset=30, 0, -1, x
CountRequests ==
    { [httpMethod |-> "GET", path |-> "/metrics/events/count"] } \cup
    { [httpMethod |-> "GET", path |-> "/metrics/events/count", offset |-> o] :
        o \in { << "3", "0" >>, << "0" >>, << "-", "1" >>, << "x" >> } }

\* GET /metrics/pr-average without repo
ListingRequest == [httpMethod |-> "GET", path |-> "/metrics/pr-average", repo |-> << >>]

MaxOpened == 3      \* value of an opened counter

\* datetime.now(timezone.utc) of the request
StatsNow == << 12, 30, 0 >>

\* a request on the event table (the counters are not read), a request
\* whose name is at or beyond the limits of the validation on a table of at
\* most one row, or the listing request on the counter table (the events are
\* not read)
InitStats ==
    /\ \/ /\ st_items \in SeqsUpTo(StatRows, MaxRows)
          /\ st_request \in StatsRequests \cup CountRequests
          /\ summary = [r \in Repos |-> 0]
       \/ /\ st_items \in SeqsUpTo(StatRows, 1)
          /\ st_request \in NameRequests
          /\ summary = [r \in Repos |-> 0]
       \/ /\ st_items = << >>
          /\ st_request = ListingRequest
          /\ summary \in [Repos -> 0..MaxOpened]
    /\ st_response = NoRecord
    /\ st_pages = IdlePages

\* lambda_handler serves the request; storeOk and failing are the store's
\* part: only an operation the handler issues can raise
ServeRequest(storeOk, failing) ==
    /\ st_response = NoRecord
    /\ storeOk \/ (IsPrAverageRoute(st_request) /\ stats_store_calls(st_request) # << >>)
    /\ failing = {} \/ (IsEventCountRoute(st_request) /\ stats_store_calls(st_request) # << >>)
    /\ st_response' = [kind |-> "served", storeOk |-> storeOk, failing |-> failing,
                       calls |-> stats_store_calls(st_request),
                       value |-> stats_lambda_handler(st_request, st_items, summary,
                                                      storeOk, failing, StatsNow)]
    /\ UNCHANGED << st_items, st_request, st_pages, procVars, pollerVars, filterVars, timelineVars >>

NextStats ==
    \E storeOk \in BOOLEAN : \E failing \in SUBSET { EventTypes[k] : k \in 1..3 } :
        ServeRequest(storeOk, failing)

(***************************************************************************)
(* get_pr_events_for_repo, query by query: the table is the category index *)
(* in ascending created_at order, the store decides where each page ends   *)
(***************************************************************************)
Ascending(items) ==
    \A i, j \in 1..Len(items) :
        i < j => Timestamp(items[i].created_at) <= Timestamp(items[j].created_at)

PagedRequests ==
    { [httpMethod |-> "GET", path |-> "/metrics/pr-average", repo |-> r] : r \in { RepoA, RepoB } }

InitPages ==
    /\ st_items \in { t \in SeqsUpTo(StatRows, MaxRows) : Ascending(t) }
    /\ st_request \in PagedRequests
    /\ st_response = NoRecord
    /\ st_pages = [IdlePages EXCEPT !.pc = "loop"]

\* the rows the store can evaluate in the next query: at least one while
\* rows are left; it may hand out a key when it stops at the last row
PageCuts ==
    LET left == Len(PrPartition(st_items)) - StartOf(st_pages.last_evaluated_key)
    IN  { c \in (0..left) \X BOOLEAN :
            /\ c[1] = 0 <=> left = 0
            /\ c[2] => (c[1] = left /\ left > 0) }

\* variant: the response's LastEvaluatedKey is not looked at, the first
\* page is returned
QueryPage_SinglePage(k, more) ==
    LET resp == QueryResponse(st_items, st_request.repo, st_pages.last_evaluated_key, k, more)
    IN  /\ st_pages.pc = "loop"
        /\ st_pages' = [pc |-> "returned",
                        items |-> st_pages.items \o resp.Items,
                        last_evaluated_key |-> resp.LastEvaluatedKey,
                        queries |-> st_pages.queries + 1]
        /\ UNCHANGED << st_items, st_request, st_response, procVars, pollerVars, filterVars, timelineVars >>

\* one pass of the while-loop: query from the last key, extend items, leave
\* the loop and return when the response carries no key
QueryPage(k, more) ==
    LET resp == QueryResponse(st_items, st_request.repo, st_pages.last_evaluated_key, k, more)
    IN  /\ st_pages.pc = "loop"
        /\ st_pages' = [pc |-> IF resp.LastEvaluatedKey = Null THEN "returned" ELSE "loop",
                        items |-> st_pages.items \o resp.Items,
                        last_evaluated_key |-> resp.LastEvaluatedKey,
                        queries |-> st_pages.queries + 1]
        /\ UNCHANGED << st_items, st_request, st_response, procVars, pollerVars, filterVars, timelineVars >>

\* table.query raises: logged and re-raised
QueryRaises ==
    /\ st_pages.pc = "loop"
    /\ st_pages' = [st_pages EXCEPT !.pc = "raised"]
    /\ UNCHANGED << st_items, st_request, st_response, procVars, pollerVars, filterVars, timelineVars >>

NextPages ==
    \/ \E c \in PageCuts : QueryPage(c[1], c[2])
    \/ QueryRaises

(***************************************************************************)
(* VisualizationAPI: GET /visualization/timeline                           *)
(* A time is a number of half seconds since 2025-08-23T00:00:00Z (a tick), *)
(* so that datetime.now() has a fraction of a second and a created_at of   *)
(* the table has none.  An ISO string is the sequence                      *)
(*   << seconds, code of the character after the seconds, ... >>           *)
(* where the seconds stand for the 19 characters "YYYY-MM-DDTHH:MM:SS",    *)
(* whose string order is the order of time.                                *)
(***************************************************************************)
MaxBuckets == 2     \* intervals of a request whose tasks are interleaved freely
MaxFaults == 1      \* cell queries of a request that raise, answer late or never answer

event_types == << "WatchEvent", "PullRequestEvent", "IssuesEvent" >>
TypeSet == { event_types[k] : k \in 1..3 }

\* datetime.isoformat() of an aware UTC time: "+00:00" (code 43) follows the
\* seconds when the microsecond is 0, ".500000+00:00" (code 46) otherwise
isoformat(t) == IF t % 2 = 0 THEN << t \div 2, 43 >> ELSE << t \div 2, 46, 5 >>

\* the created_at the feed gives and the Processor stores: "...SSZ" (code 90)
github_created_at(seconds) == << seconds, 90 >>

\* query_params.get("hours", "24") and query_params.get("interval", "60")
HoursOf(event) == IF "hours" \in DOMAIN event THEN event.hours ELSE << "2", "4" >>
IntervalOf(event) == IF "interval" \in DOMAIN event THEN event.interval ELSE << "6", "0" >>

\* the parameter checks of handle_timeline_visualization_request: the 400
\* response, or NoRecord when both parameters are accepted
timeline_validation(event) ==
    LET hours == ParseInt(HoursOf(event))
        interval_minutes == ParseInt(IntervalOf(event))
    IN  IF ~ hours.ok
        THEN create_response(400, [error |-> "Hours must be a valid integer"])
        ELSE IF hours.value <= 0 \/ hours.value > 168
        THEN create_response(400, [error |-> "Hours must be between 1 and 168 (1 week)"])
        ELSE IF ~ interval_minutes.ok
        THEN create_response(400, [error |-> "Interval must be a valid integer"])
        ELSE IF interval_minutes.value <= 0 \/ interval_minutes.value > 1440
        THEN create_response(400, [error |-> "Interval must be between 1 and 1440 minutes"])
        ELSE NoRecord

IsTimelineRoute(event) ==
    /\ event.path \in { "/visualization/timeline", "/visualisation/timeline" }
    /\ event.httpMethod = "GET"

\* what lambda_handler answers before any interval is queried, NoRecord when
\* the request goes on to get_event_timeline_data
timeline_early_response(event) ==
    IF event.httpMethod = "OPTIONS" THEN create_response(200, [message |-> "CORS preflight"])
    ELSE IF ~ IsTimelineRoute(event) THEN create_response(404, [error |-> "Endpoint not found"])
    ELSE timeline_validation(event)

\* variant: the number of intervals is rounded up
num_intervals_RoundsUp(hours, interval_minutes) ==
    Min((hours * 60 + interval_minutes - 1) \div interval_minutes, 100)

num_intervals(hours, interval_minutes) == Min((hours * 60) \div interval_minutes, 100)

\* the number of intervals of an accepted request
NumIntervalsOf(event) ==
    num_intervals(ParseInt(HoursOf(event)).value, ParseInt(IntervalOf(event)).value)

\* timedelta(minutes=m) in ticks
Minutes(m) == 120 * m

\* query_interval_count: the COUNT of the rows of the category whose
\* created_at is BETWEEN the two strings (both ends included), 0 when the
\* query raises
query_interval_count(table, event_type, start_time, end_time, raises) ==
    IF raises THEN 0
    ELSE Cardinality({ r \in table : /\ r.event_type = event_type
                                     /\ LexLE(start_time, r.created_at)
                                     /\ LexLE(r.created_at, end_time) })

\* the future of get_interval_counts for interval i, as the loop submits it;
\* how: what the query of each category will do (answers, raises, slow, stalls)
NewTask(now, i, interval_minutes, how) ==
    [interval_start |-> now - Minutes(i * interval_minutes) - Minutes(interval_minutes),
     interval_end |-> now - Minutes(i * interval_minutes),
     how |-> how, ran |-> FALSE, answered |-> {},
     counts |-> [t \in TypeSet |-> 0], timed_out |-> FALSE]

\* the future is done: as_completed has yielded the query of every category
\* and the inner executor has shut down
TaskDone(task) == task.answered = TypeSet

\* the count a cell of the task gets when its query returns
CellCount(table, task, event_type) ==
    query_interval_count(table, event_type, isoformat(task.interval_start),
                         isoformat(task.interval_end), task.how[event_type] = "raises")

\* the entry appended for a collected future
TimelineEntry(task, counts) ==
    [timestamp |-> isoformat(task.interval_start),
     interval_start |-> isoformat(task.interval_start),
     interval_end |-> isoformat(task.interval_end),
     counts |-> counts]

\* variant: the entries are returned in the order of collection
SortByTimestamp_Keeps(entries) == entries

\* the position each entry gets in a stable sort on the timestamp strings
RanksByTimestamp(entries) ==
    [j \in 1..Len(entries) |->
        1 + Cardinality({ i \in 1..Len(entries) :
              \/ ~ LexLE(entries[j].timestamp, entries[i].timestamp)
              \/ /\ LexLE(entries[i].timestamp, entries[j].timestamp)
                 /\ i < j })] \o << >>

Placed(entries, ranks) ==
    [k \in 1..Len(entries) |-> entries[CHOOSE j \in 1..Len(entries) : ranks[j] = k]]

\* timeline_data.sort(key=lambda x: x["timestamp"])
SortByTimestamp(entries) == Placed(entries, RanksByTimestamp(entries))

\* sum(f[lo..hi])
RECURSIVE SumRange(_, _, _)
SumRange(f, lo, hi) ==
    IF lo > hi THEN 0
    ELSE IF lo = hi THEN f[lo]
    ELSE SumRange(f, lo, (lo + hi) \div 2) + SumRange(f, (lo + hi) \div 2 + 1, hi)

\* sum(point["counts"].values())
PointTotal(point) == SumRange([k \in 1..3 |-> point.counts[event_types[k]]], 1, 3)

\* the 200 response of handle_timeline_visualization_request
TimelineResponse(hours, interval_minutes, timeline_data) ==
    create_response(200,
        [visualization_type |-> "line_chart",
         hours |-> hours, interval_minutes |-> interval_minutes,
         data_points |-> Len(timeline_data),
         total_events |-> SumRange([j \in 1..Len(timeline_data) |-> PointTotal(timeline_data[j])],
                                   1, Len(timeline_data)),
         timeline |-> timeline_data])

(***************************************************************************)
(* Timeline state machine: the main thread submits one task per interval,  *)
(* collects the futures in submission order and leaves the executor; the   *)
(* tasks run on the pool in any order                                      *)
(***************************************************************************)
TimelineRow(id, event_type, seconds) ==
    [pk |-> << "event#", id >>, event_type |-> event_type,
     created_at |-> github_created_at(seconds)]

\* rows at 12:30:00, 12:45:00, 13:00:00 and 12:00:00 of the day
TimelineRows ==
    { TimelineRow(1, "WatchEvent", 45000), TimelineRow(2, "PullRequestEvent", 45900),
      TimelineRow(3, "PullRequestEvent", 46800), TimelineRow(4, "IssuesEvent", 43200) }

\* the empty table, the tables of one row and the table of all rows
TimelineTables == { {}, TimelineRows } \cup { { r } : r \in TimelineRows }

TimelineGet(params) == [httpMethod |-> "GET", path |-> "/visualization/timeline"] @@ params

\* requests for the last hour in intervals of 61, 60, 30 and 20 minutes, the
\* default request, requests of 99, 100 and more than 100 intervals, requests
\* with a parameter out of range or not a number, and the other routes
TimelineRequests ==
    { TimelineGet([hours |-> << "1" >>, interval |-> w]) :
        w \in { << "6", "1" >>, << "6", "0" >>, << "3", "0" >>, << "2", "0" >>,
                << "0" >>, << "1", "4", "4", "1" >>, << "x" >> } } \cup
    { TimelineGet([hours |-> h]) : h \in { << "0" >>, << "1", "6", "9" >>, << "x" >> } } \cup
    { TimelineGet([hours |-> << "3", "3" >>, interval |-> << "2", "0" >>]),
      TimelineGet([hours |-> << "1", "0", "0" >>]),
      TimelineGet([hours |-> << "1", "6", "8" >>, interval |-> << "1" >>]),
      [httpMethod |-> "GET", path |-> "/visualization/timeline"],
      [httpMethod |-> "GET", path |-> "/visualisation/timeline", hours |-> << "1" >>],
      [httpMethod |-> "OPTIONS", path |-> "/visualization/timeline"],
      [httpMethod |-> "GET", path |-> "/visualization/unknown"] }

\* the request gets intervals, and few enough for its tasks to be
\* interleaved freely
Interleaved(event) ==
    /\ timeline_early_response(event) = NoRecord
    /\ NumIntervalsOf(event) <= MaxBuckets

\* the main thread: where it is, its locals hours, interval_minutes and
\* num_intervals, whether the clock has ticked, whether a task has run
\* before a task submitted earlier
IdleTimeline ==
    [at |-> "idle", hours |-> 0, interval_minutes |-> 0, num_intervals |-> 0,
     ticked |-> FALSE, overtaken |-> FALSE]

\* the request arrives at 13:00:00.0 or 13:00:00.5; a request with few
\* intervals meets any table, the others the whole table
InitTimeline ==
    /\ tl_request \in TimelineRequests
    /\ tl_table \in TimelineTables
    /\ Interleaved(tl_request) \/ tl_table = TimelineRows
    /\ tl_clock \in { 93600, 93601 }
    /\ tl_futures = << >>
    /\ tl_timeline = << >>
    /\ tl_pc = [IdleTimeline EXCEPT !.at = "received"]
    /\ tl_response = NoRecord

\* lambda_handler and the parameter checks: an early response, or on to
\* get_event_timeline_data
AcceptRequest ==
    /\ tl_pc.at = "received"
    /\ IF timeline_early_response(tl_request) = NoRecord
       THEN /\ tl_pc' = [tl_pc EXCEPT !.at = "running",
                                      !.hours = ParseInt(HoursOf(tl_request)).value,
                                      !.interval_minutes = ParseInt(IntervalOf(tl_request)).value,
                                      !.num_intervals = NumIntervalsOf(tl_request)]
            /\ UNCHANGED tl_response
       ELSE /\ tl_pc' = [tl_pc EXCEPT !.at = "answered"]
            /\ tl_response' = timeline_early_response(tl_request)
    /\ UNCHANGED << tl_request, tl_table, tl_clock, tl_futures, tl_timeline,
                    procVars, pollerVars, filterVars, statsVars >>

FaultsOf(how) == Cardinality({ t \in TypeSet : how[t] # "answers" })

FaultsIn(futures) ==
    SumRange([j \in 1..Len(futures) |-> FaultsOf(futures[j].how)], 1, Len(futures))

\* one iteration of the submit loop (lines 140-145): datetime.now() is read,
\* the task is submitted; the clock may pass to the next half second before
\* the next iteration (once: the loop is short).  A request with more than
\* MaxBuckets intervals is followed with a steady clock and answering queries.
SubmitInterval(how, tick) ==
    /\ tl_pc.at = "running"
    /\ Len(tl_futures) < tl_pc.num_intervals
    /\ FaultsIn(tl_futures) + FaultsOf(how) <= MaxFaults
    /\ tl_pc.num_intervals <= MaxBuckets \/ (FaultsOf(how) = 0 /\ ~ tick)
    /\ tick => (~ tl_pc.ticked /\ Len(tl_futures) + 1 < tl_pc.num_intervals)
    /\ tl_futures' = Append(tl_futures,
                            NewTask(tl_clock, Len(tl_futures), tl_pc.interval_minutes, how))
    /\ tl_clock' = IF tick THEN tl_clock + 1 ELSE tl_clock
    /\ tl_pc' = [tl_pc EXCEPT !.ticked = tl_pc.ticked \/ tick]
    /\ UNCHANGED << tl_request, tl_table, tl_timeline, tl_response,
                    procVars, pollerVars, filterVars, statsVars >>

\* get_interval_counts of task b on a pool thread: the queries that answer or
\* raise complete and as_completed yields them; the task is done unless a
\* query is slow or stalls.  A request with more than MaxBuckets intervals
\* is followed with each task running just before it is collected.
RunIntervalCounts(b) ==
    /\ tl_pc.at = "running"
    /\ b \in 1..Len(tl_futures)
    /\ ~ tl_futures[b].ran
    /\ tl_pc.num_intervals <= MaxBuckets
       \/ (Len(tl_futures) = tl_pc.num_intervals /\ b = Len(tl_timeline) + 1)
    /\ LET task == tl_futures[b]
           quick == { t \in TypeSet : task.how[t] \in { "answers", "raises" } }
       IN  tl_futures' = [tl_futures EXCEPT ![b] =
               [task EXCEPT !.ran = TRUE, !.answered = quick,
                            !.counts = [t \in TypeSet |->
                                           IF t \in quick THEN CellCount(tl_table, task, t)
                                           ELSE 0]]]
    /\ tl_pc' = [tl_pc EXCEPT !.overtaken = @ \/ \E a \in 1..(b - 1) : ~ tl_futures[a].ran]
    /\ UNCHANGED << tl_request, tl_table, tl_clock, tl_timeline, tl_response,
                    procVars, pollerVars, filterVars, statsVars >>

\* a slow query of task b answers; as_completed yields it
LateAnswer(b, t) ==
    /\ tl_pc.at = "running"
    /\ b \in 1..Len(tl_futures)
    /\ tl_futures[b].ran
    /\ tl_futures[b].how[t] = "slow"
    /\ t \notin tl_futures[b].answered
    /\ tl_futures' = [tl_futures EXCEPT ![b] =
           [@ EXCEPT !.answered = @ \cup { t },
                     !.counts = [@ EXCEPT ![t] = CellCount(tl_table, tl_futures[b], t)]]]
    /\ UNCHANGED << tl_request, tl_table, tl_clock, tl_timeline, tl_pc, tl_response,
                    procVars, pollerVars, filterVars, statsVars >>

\* the next future of the collect loop, once every task is submitted
NextToCollect ==
    IF /\ tl_pc.at = "running"
       /\ Len(tl_futures) = tl_pc.num_intervals
       /\ Len(tl_timeline) < Len(tl_futures)
    THEN Len(tl_timeline) + 1 ELSE 0

\* future.result(timeout=10) returns the counts of a finished task
CollectResult ==
    /\ NextToCollect # 0
    /\ TaskDone(tl_futures[NextToCollect])
    /\ tl_timeline' = Append(tl_timeline,
                             TimelineEntry(tl_futures[NextToCollect],
                                           tl_futures[NextToCollect].counts))
    /\ UNCHANGED << tl_request, tl_table, tl_clock, tl_futures, tl_pc, tl_response,
                    procVars, pollerVars, filterVars, statsVars >>

\* future.result(timeout=10) raises TimeoutError: the task still waits for a
\* query after 10 seconds, and the interval is appended with zero counts
CollectTimeout ==
    /\ NextToCollect # 0
    /\ tl_futures[NextToCollect].ran
    /\ ~ TaskDone(tl_futures[NextToCollect])
    /\ tl_timeline' = Append(tl_timeline,
                             TimelineEntry(tl_futures[NextToCollect], [t \in TypeSet |-> 0]))
    /\ tl_futures' = [tl_futures EXCEPT ![NextToCollect].timed_out = TRUE]
    /\ UNCHANGED << tl_request, tl_table, tl_clock, tl_pc, tl_response,
                    procVars, pollerVars, filterVars, statsVars >>

\* the with block ends (the executor waits for every task), the timeline is
\* sorted and handle_timeline_visualization_request builds the response
ReturnTimeline ==
    /\ tl_pc.at = "running"
    /\ Len(tl_futures) = tl_pc.num_intervals
    /\ Len(tl_timeline) = Len(tl_futures)
    /\ \A b \in 1..Len(tl_futures) : TaskDone(tl_futures[b])
    /\ tl_timeline' = SortByTimestamp(tl_timeline)
    /\ tl_response' = TimelineResponse(tl_pc.hours, tl_pc.interval_minutes, tl_timeline')
    /\ tl_pc' = [tl_pc EXCEPT !.at = "returned"]
    /\ UNCHANGED << tl_request, tl_table, tl_clock, tl_futures,
                    procVars, pollerVars, filterVars, statsVars >>

Behaviours == [TypeSet -> { "answers", "raises", "slow", "stalls" }]

NextTimeline ==
    \/ AcceptRequest
    \/ \E how \in Behaviours : \E tick \in BOOLEAN : SubmitInterval(how, tick)
    \/ \E b \in 1..Len(tl_futures) : RunIntervalCounts(b)
    \/ \E b \in 1..Len(tl_futures) : \E t \in TypeSet : LateAnswer(b, t)
    \/ CollectResult
    \/ CollectTimeout
    \/ ReturnTimeline

(***************************************************************************)
(* Specifications                                                          *)
(***************************************************************************)
ParkedEventProcessor ==
    /\ processed_events = {} /\ sent = << >>
    /\ deleted = {} /\ inv = [p \in Procs |-> IdleInv] /\ clock = 0 /\ delivered = 0
    /\ hist = [k \in Keys |-> [inserted |-> 0, incs |-> 0, missed |-> 0, rejected |-> 0, cut |-> 0]]

ParkedProcessor == ParkedEventProcessor /\ summary = [r \in Repos |-> 0]

ParkedPoller ==
    /\ feed = [n |-> 0, pattern |-> << "PullRequestEvent" >>] /\ cursor = {}
    /\ poll = IdlePoll /\ queue_calls = << >> /\ log = {} /\ polls = 0 /\ past = "clean"

ParkedFilter == f_events = << >> /\ f_seen = << >> /\ f_result = [done |-> FALSE, value |-> << >>]

ParkedStats ==
    st_items = << >> /\ st_request = NoRecord /\ st_response = NoRecord /\ st_pages = IdlePages

ParkedTimeline ==
    /\ tl_request = NoRecord /\ tl_table = {} /\ tl_clock = 0 /\ tl_futures = << >>
    /\ tl_timeline = << >> /\ tl_pc = IdleTimeline /\ tl_response = NoRecord

Init == InitProcessor /\ ParkedPoller /\ ParkedFilter /\ ParkedStats /\ ParkedTimeline
Spec == Init /\ [][Next]_vars

PollerInit == ParkedProcessor /\ InitPoller /\ ParkedFilter /\ ParkedStats /\ ParkedTimeline
SpecPoller == PollerInit /\ [][NextPoller]_vars

FilterInit == ParkedProcessor /\ ParkedPoller /\ InitFilter /\ ParkedStats /\ ParkedTimeline
SpecFilter == FilterInit /\ [][NextFilter]_vars

SeenInit == ParkedProcessor /\ ParkedPoller /\ InitSeen /\ ParkedStats /\ ParkedTimeline
SpecSeen == SeenInit /\ [][NextSeen]_vars

StatsInit == ParkedEventProcessor /\ ParkedPoller /\ ParkedFilter /\ InitStats /\ ParkedTimeline
SpecStats == StatsInit /\ [][NextStats]_vars

PagesInit == ParkedProcessor /\ ParkedPoller /\ ParkedFilter /\ InitPages /\ ParkedTimeline
SpecPages == PagesInit /\ [][NextPages]_vars
\* the loop is sequential code that keeps running, and the store answers
\* every query
SpecPagesLive == PagesInit /\ [][NextPages]_vars /\ WF_vars(NextPages)

TimelineInit == ParkedProcessor /\ ParkedPoller /\ ParkedFilter /\ ParkedStats /\ InitTimeline
SpecTimeline == TimelineInit /\ [][NextTimeline]_vars

\* every thread that can take a step eventually takes one
SpecTimelineLive == TimelineInit /\ [][NextTimeline]_vars /\ WF_vars(NextTimeline)


(***************************************************************************)
(* Properties of the Processor (specification Spec)                        *)
(***************************************************************************)
RowsOfKey(k) == { r \in processed_events : TableKey(r) = k }

Quiescent == \A p \in Procs : inv[p].stage = "idle"

\* record j of the batch of invocation p went through the conditional put
\* (inserted or rejected as a duplicate)
Stored(p, j) == j <= Len(inv[p].results) /\ inv[p].results[j] \in {"inserted", "duplicate"}

RecordKey(p, j) == KeyOfBody(sent[inv[p].batch[j]])

\* key k went through the conditional put of an invocation that is still around
Attempted(k) ==
    \E p \in Procs :
        \/ \E j \in 1..Len(inv[p].batch) : Stored(p, j) /\ RecordKey(p, j) = k
        \/ inv[p].stage = "summary" /\ RecordKey(p, inv[p].i) = k

OpenedKeys ==
    { KeyOfBody(b) : b \in { x \in Bodies : x.type = "PullRequestEvent" /\ x.action = "opened" } }

OpenedRows(repo) ==
    { r \in processed_events :
        r.repo_name = repo /\ r.event_type = "PullRequestEvent" /\ r.pr_action = "opened" }

\* C1: processing an event twice with the same id and created_at leaves
\* exactly one persisted row for it and increments the counter for it at
\* most once.
C1_IdempotentInsert ==
    \A k \in Keys :
        /\ Cardinality(RowsOfKey(k)) <= 1
        /\ hist[k].inserted <= 1
        /\ hist[k].incs <= 1
        /\ Attempted(k) => Cardinality(RowsOfKey(k)) = 1

\* C1 witness: an invocation met, as a duplicate, an opened pull request that
\* an earlier invocation had persisted and counted.
C1_Witness ==
    \E p \in Procs : \E j \in 1..Len(inv[p].results) :
        /\ inv[p].results[j] = "duplicate"
        /\ RecordKey(p, j) \in OpenedKeys
        /\ hist[RecordKey(p, j)].incs = 1
        /\ \E r \in RowsOfKey(RecordKey(p, j)) : r.processed_at # inv[p].now

\* C2 as stated: once the invocations that handled an opened pull request
\* are over, exactly one of them has inserted it and the counter has gone up
\* by exactly 1 for it.
C2_ExactlyOneIncrement ==
    \A k \in OpenedKeys :
        (Quiescent /\ RowsOfKey(k) # {}) => (hist[k].inserted = 1 /\ hist[k].incs = 1)

\* C2 amended: in every interleaving exactly one invocation inserts the row
\* and the counter goes up by at most 1 for it; once the invocations are over
\* it has gone up by exactly 1 unless the increment of the inserting
\* invocation failed (swallowed) or that invocation died before it.
C2_AtMostOneIncrement ==
    \A k \in OpenedKeys :
        /\ hist[k].inserted <= 1
        /\ hist[k].incs <= 1
        /\ Attempted(k) => hist[k].inserted = 1
        /\ (Quiescent /\ RowsOfKey(k) # {}) =>
              /\ hist[k].inserted = 1
              /\ hist[k].incs + hist[k].missed = 1

\* C2 witness: one invocation has inserted an opened pull request and is
\* about to update the counter while a concurrent invocation has had the
\* same event rejected as a duplicate.
C2_Witness ==
    \E p, q \in Procs :
        /\ p # q
        /\ inv[p].stage = "summary"
        /\ \E j \in 1..Len(inv[q].results) :
              /\ inv[q].results[j] = "duplicate"
              /\ RecordKey(q, j) = RecordKey(p, inv[p].i)

\* C3 as stated: whenever no invocation is in progress, every repository's
\* counter equals the number of its persisted opened PullRequestEvent rows.
C3_CounterEqualsRows ==
    Quiescent => \A repo \in Repos : summary[repo] = Cardinality(OpenedRows(repo))

\* C3 amended: whenever no invocation is in progress, every repository's
\* counter equals the number of its persisted opened PullRequestEvent rows
\* whose counter update was applied, i.e. all of them except those whose
\* update failed (swallowed) or was cut off by the death of the invocation.
C3_CounterEqualsCountedRows ==
    Quiescent =>
        \A repo \in Repos :
            summary[repo] =
                Cardinality({ r \in OpenedRows(repo) : hist[TableKey(r)].missed = 0 })

\* C3 witness: no invocation in progress, two opened pull requests of one
\* repository persisted, its counter at 2.
C3_Witness ==
    /\ Quiescent
    /\ \E repo \in Repos : summary[repo] = 2 /\ Cardinality(OpenedRows(repo)) = 2

RECURSIVE SumIncs(_)
SumIncs(ks) ==
    IF ks = {} THEN 0
    ELSE LET k == CHOOSE x \in ks : TRUE IN hist[k].incs + SumIncs(ks \ {k})

KeysOfId(id) == { KeyOfBody(b) : b \in { x \in Bodies : x.id = id } }

\* C4: a delivery whose event id is already persisted is rejected whatever
\* its created_at, so the table never holds two rows with the same event id
\* and the counter is never incremented twice for one id.
C4_OneRowPerEventId ==
    /\ \A r1, r2 \in processed_events : r1.id = r2.id => r1 = r2
    /\ \A b \in Bodies : SumIncs(KeysOfId(b.id)) <= 1

\* the event of record j of invocation p has a row in the table
Persisted(p, j) == RowsOfKey(RecordKey(p, j)) # {}

\* C10: a record whose processing failed is reported so that the transport
\* redelivers it: when the event source settles the invocation, the message
\* of a failed record whose event is not persisted stays in the queue.
C10_FailedRecordStaysQueued ==
    [][ \A p \in Procs :
          (inv[p].stage = "returned" /\ inv'[p].stage = "idle") =>
              \A j \in 1..Len(inv[p].results) :
                  (inv[p].results[j] = "failed" /\ ~ Persisted(p, j))
                      => inv[p].batch[j] \notin deleted' ]_vars

NumFailed(results) == Cardinality({ j \in 1..Len(results) : results[j] = "failed" })

\* C11: a record that raises does not stop the loop: the records are taken
\* one by one in batch order, each exactly once, and the returned counts
\* satisfy processed + failed = N with failed the number of records that
\* raised.
C11_PerRecordIsolation ==
    \A p \in Procs :
        /\ inv[p].stage \in {"store", "summary"} =>
              /\ Len(inv[p].results) = inv[p].i - 1
              /\ inv[p].i <= Len(inv[p].batch) + 1
        /\ inv[p].stage = "returned" =>
              /\ Len(inv[p].results) = Len(inv[p].batch)
              /\ inv[p].response.processed + inv[p].response.failed = Len(inv[p].batch)
              /\ inv[p].response.failed = NumFailed(inv[p].results)

\* C11 witness: a batch of two whose first record raised and whose second
\* record was inserted, reported as 1 processed and 1 failed.
C11_Witness ==
    \E p \in Procs :
        /\ inv[p].stage = "returned"
        /\ inv[p].results = << "failed", "inserted" >>
        /\ inv[p].response.processed = 1 /\ inv[p].response.failed = 1

\* the step in which invocation p finishes a record with the given result
Finishes(p, result) ==
    /\ Len(inv'[p].results) = Len(inv[p].results) + 1
    /\ inv'[p].results[Len(inv'[p].results)] = result

\* the step in which lambda_handler of invocation p returns
Returns(p) == inv[p].stage = "store" /\ inv'[p].stage = "returned"

\* C12: a record rejected by the conditional insert as a duplicate changes
\* neither table, goes on to the next record without a counter update, and
\* is counted among the processed records, not the failed ones.
C12_DuplicateIsNotAnError ==
    [][ \A p \in Procs :
          /\ Finishes(p, "duplicate") =>
                /\ summary' = summary
                /\ processed_events' = processed_events
                /\ inv[p].stage = "store" /\ inv'[p].stage = "store"
          /\ Returns(p) =>
                /\ inv'[p].response.failed = NumFailed(inv[p].results)
                /\ inv'[p].response.processed =
                      CountOf(inv[p].results, {"duplicate"}) + CountOf(inv[p].results, {"inserted"})
      ]_vars

\* C12 witness: a batch carrying the same opened pull request twice was
\* reported as 2 processed and 0 failed, with the counter at 1.
C12_Witness ==
    \E p \in Procs :
        /\ inv[p].stage = "returned"
        /\ inv[p].results = << "inserted", "duplicate" >>
        /\ inv[p].response.processed = 2 /\ inv[p].response.failed = 0
        /\ RecordKey(p, 1) \in OpenedKeys
        /\ summary[sent[inv[p].batch[1]].repo] = 1

\* the step in which the counter update of invocation p fails
CounterFails(p) ==
    /\ inv[p].stage = "summary" /\ inv'[p].stage # "idle" /\ inv'[p] # inv[p]
    /\ summary' = summary

\* C13: when the counter increment fails after the insert, the inserted row
\* stays, the record is finished as processed, the loop goes on and the
\* handler returns its counts with that record among the processed ones.
C13_CounterFailureSwallowed ==
    [][ \A p \in Procs :
          /\ CounterFails(p) =>
                /\ RowsOfKey(RecordKey(p, inv[p].i)) # {}
                /\ processed_events' = processed_events
                /\ Finishes(p, "inserted")
                /\ inv'[p].stage = "store"
          /\ Returns(p) =>
                /\ inv'[p].response.statusCode = 200
                /\ inv'[p].response.failed = NumFailed(inv[p].results)
                /\ inv'[p].response.processed = Len(inv[p].batch) - NumFailed(inv[p].results)
      ]_vars

\* C13 witness: an invocation has returned 1 processed, 0 failed for an
\* opened pull request it inserted and whose counter update failed: the row
\* is there, the counter is not.
C13_Witness ==
    \E p \in Procs :
        /\ inv[p].stage = "returned"
        /\ inv[p].results = << "inserted" >>
        /\ inv[p].response.processed = 1 /\ inv[p].response.failed = 0
        /\ RecordKey(p, 1) \in OpenedKeys
        /\ hist[RecordKey(p, 1)].missed = 1 /\ hist[RecordKey(p, 1)].cut = 0
        /\ hist[RecordKey(p, 1)].incs = 0
        /\ \E r \in RowsOfKey(RecordKey(p, 1)) : r.processed_at = inv[p].now
        /\ summary[sent[inv[p].batch[1]].repo] = 0

\* C14: a counter changes only in a step of a Processor invocation that has
\* just inserted, itself, the row of an opened PullRequestEvent, and then it
\* goes up by one for the repository of that event; nothing else changes a
\* counter and no counter decreases.
C14_CounterWriteGuard ==
    [][ summary' # summary =>
          \E p \in Procs :
              /\ inv[p].stage = "summary"
              /\ sent[inv[p].batch[inv[p].i]].type = "PullRequestEvent"
              /\ sent[inv[p].batch[inv[p].i]].action = "opened"
              /\ \E r \in RowsOfKey(RecordKey(p, inv[p].i)) : r.processed_at = inv[p].now
              /\ hist[RecordKey(p, inv[p].i)].incs = 0
              /\ summary' = [summary EXCEPT ![sent[inv[p].batch[inv[p].i]].repo] = @ + 1]
      ]_vars

\* C14 witness: an opened IssuesEvent and an opened PullRequestEvent are
\* both persisted; only the pull request's repository has a counter above 0.
C14_Witness ==
    /\ Quiescent
    /\ \E r \in processed_events : r.event_type = "IssuesEvent" /\ r.action = "opened"
                                   /\ summary[r.repo_name] = 0
    /\ \E r \in processed_events : r.event_type = "PullRequestEvent" /\ r.pr_action = "opened"
                                   /\ summary[r.repo_name] = 1

\* every message has been delivered, handled and deleted
AllSettled == Quiescent /\ deleted = 1..Len(sent)

SentBodies == { sent[m] : m \in 1..Len(sent) }

\* what the stores must hold for the events sent, whatever the deliveries
ExpectedIds == { b.id : b \in SentBodies }
ExpectedCount(repo) ==
    Cardinality({ KeyOfBody(b) : b \in { x \in SentBodies :
        x.repo = repo /\ x.type = "PullRequestEvent" /\ x.action = "opened" } })

NoStoreFailure == \A k \in Keys : hist[k].rejected = 0 /\ hist[k].missed = hist[k].cut

C27_EveryTypePersisted ==
    \A p \in Procs : \A j \in 1..Len(inv[p].results) :
        Stored(p, j) =>
            \E r \in processed_events :
                /\ r.pk = << "event#", sent[inv[p].batch[j]].id >>
                /\ r.created_at = sent[inv[p].batch[j]].created_at
                /\ r.event_type = sent[inv[p].batch[j]].type
                /\ r.repo_name = sent[inv[p].batch[j]].repo

\* C27 witness: a batch with a WatchEvent and an event of an unrecognized
\* type has returned 2 processed, 0 failed, both inserted.
C27_Witness ==
    \E p \in Procs :
        /\ inv[p].stage = "returned"
        /\ inv[p].results = << "inserted", "inserted" >>
        /\ { sent[inv[p].batch[j]].type : j \in 1..2 } = { "WatchEvent", "SomeOtherEvent" }
        /\ inv[p].response.processed = 2 /\ inv[p].response.failed = 0
        /\ Cardinality(processed_events) = 2

\* C32: no step of the Processor changes or removes a row of the
\* processed-events table; a delivery rejected as a duplicate finds the row
\* of its key in the table and leaves it, processed_at included, and every
\* counter as they are.
C32_RowsImmutable ==
    [][ /\ processed_events \subseteq processed_events'
        /\ \A p \in Procs :
              Finishes(p, "duplicate") =>
                 \E r \in processed_events :
                    /\ TableKey(r) = RecordKey(p, inv[p].i)
                    /\ r \in processed_events'
                    /\ RowsOfKey(TableKey(r)) = {r}
                    /\ summary' = summary
      ]_vars

\* C32 witness: a later invocation met, as a duplicate, a row that an
\* earlier invocation had written; the row still carries the earlier
\* processed_at.
C32_Witness ==
    \E p \in Procs : \E j \in 1..Len(inv[p].results) :
        /\ inv[p].results[j] = "duplicate"
        /\ \E r \in RowsOfKey(RecordKey(p, j)) : r.processed_at < inv[p].now

\* C35: in every state each repository's opened counter is at most the
\* number of persisted PullRequestEvent rows of that repository whose
\* pr_action is 'opened'.
C35_CounterNeverOvercounts ==
    \A repo \in Repos : summary[repo] <= Cardinality(OpenedRows(repo))

\* C35 witness: an opened pull request is persisted, its increment failed
\* or was cut off by the death of the invocation, and a later delivery of it
\* has been rejected as a duplicate: the counter stays below the rows.
C35_Witness ==
    /\ \E repo \in Repos : summary[repo] < Cardinality(OpenedRows(repo))
    /\ \E k \in Keys : hist[k].missed > 0
    /\ \E p \in Procs : \E j \in 1..Len(inv[p].results) : inv[p].results[j] = "duplicate"

(***************************************************************************)
(* Properties of filter_new_events (specification SpecFilter)              *)
(***************************************************************************)
\* position of the first event whose id is in the seen list, Len + 1 if none
FirstKnown(events, seen) ==
    IF \E j \in 1..Len(events) : InSeq(events[j].id, seen)
    THEN CHOOSE j \in 1..Len(events) :
            /\ InSeq(events[j].id, seen)
            /\ \A m \in 1..(j - 1) : ~ InSeq(events[m].id, seen)
    ELSE Len(events) + 1

IsInterestType(e) == e.type \in {"WatchEvent", "PullRequestEvent", "IssuesEvent"}

\* C5: filter_new_events returns exactly the events before the first known
\* id whose type is WatchEvent, PullRequestEvent or IssuesEvent, in batch
\* order (all interest-type events when no id is known).
C5_DedupBoundary ==
    f_result.done =>
        f_result.value =
            SelectSeq(SubSeq(f_events, 1, FirstKnown(f_events, f_seen) - 1), IsInterestType)

\* C5 witness: a known id in the middle of the batch, an interest event kept
\* before it and an unseen interest event after it left out.
C5_Witness ==
    /\ f_result.done
    /\ FirstKnown(f_events, f_seen) = 2
    /\ f_result.value = << f_events[1] >>
    /\ \E j \in 3..Len(f_events) :
          IsInterestType(f_events[j]) /\ ~ InSeq(f_events[j].id, f_seen)

(***************************************************************************)
(* Properties of the Poller (specification SpecPoller)                     *)
(***************************************************************************)
PollOver == poll.stage = "returned"

Is304(answer) == answer.kind = "response" /\ answer.status = 304
IsFetchError(answer) ==
    answer.kind = "exception" \/ (answer.kind = "response" /\ answer.status >= 400)
IsQuotaExhausted(answer) ==
    answer.kind = "response" /\ answer.status = 403 /\ answer.remaining = "0"

\* cache token, seen-id list and poll interval of the stored cursor
CursorCore(table) ==
    { [etag |-> c.etag, last_seen_ids |-> c.last_seen_ids,
       poll_interval |-> c.poll_interval] : c \in table }

ThisPollCalls == SelectSeq(queue_calls, LAMBDA c : c.poll = polls)

RECURSIVE FlattenEntries(_)
FlattenEntries(calls) ==
    IF calls = << >> THEN << >> ELSE Head(calls).entries \o FlattenEntries(Tail(calls))

\* C6: when the upstream answers 304 the poll publishes nothing and leaves
\* the stored cache token, seen-id list and poll interval as they were.
C6_NotModifiedShortCircuit ==
    (PollOver /\ Is304(poll.cause)) =>
        /\ Len(queue_calls) = poll.before.calls
        /\ CursorCore(cursor) = CursorCore(poll.before.cursor)

\* C6 witness: a poll ended on a 304 with a cursor stored and messages
\* published by an earlier poll.
C6_Witness ==
    /\ PollOver /\ Is304(poll.cause)
    /\ cursor # {} /\ queue_calls # << >>

\* C7: the cursor is written only after every sub-batch of the new events
\* has been published without error, and the written cursor carries the
\* fresh cache token, the suggested interval and the ids of the first 100
\* events of the full fetched batch.
C7_PublishBeforeCursor ==
    (poll.stage \in {"send", "update", "returned"} /\ cursor # poll.before.cursor) =>
        /\ poll.new_events # << >>
        /\ Len(ThisPollCalls) = (Len(poll.new_events) + 9) \div 10
        /\ FlattenEntries(ThisPollCalls) = Entries(poll.new_events)
        /\ \E c \in cursor :
              /\ cursor = {c}
              /\ c.etag = poll.cause.etag
              /\ c.poll_interval = poll.cause.poll_interval
              /\ Len(c.last_seen_ids) = Min(100, Len(poll.cause.events))
              /\ \A j \in 1..Len(c.last_seen_ids) :
                    c.last_seen_ids[j] = poll.cause.events[j].id

\* C7 witness: a poll has written the cursor after publishing its new
\* events in two sub-batches.
C7_Witness ==
    /\ PollOver /\ cursor # poll.before.cursor
    /\ Len(ThisPollCalls) = 2

\* C8: when the conditional fetch fails the error propagates to the caller,
\* nothing is published and the stored cursor is unchanged.
C8_FetchErrorLeavesCursor ==
    (PollOver /\ IsFetchError(poll.cause)) =>
        /\ poll.outcome.kind = "error"
        /\ Len(queue_calls) = poll.before.calls
        /\ cursor = poll.before.cursor

\* C8 witness: a fetch failed in a poll that started with a stored cursor
\* and earlier publications.
C8_Witness ==
    /\ PollOver /\ IsFetchError(poll.cause)
    /\ cursor # {} /\ queue_calls # << >>

\* the outcome the poll has for an answer that makes the fetch fail
OutcomeOfFailure(answer) == RaisedOutcome(poll_github_events(DefaultPollState, answer))

OtherFailures ==
    { a \in Answers(feed, NoETag) : IsFetchError(a) /\ ~ IsQuotaExhausted(a) }

\* C9: on HTTP 403 with remaining quota 0 the poll ends with an error
\* outcome that differs from the outcome of every other fetch failure and
\* that carries the quota reset time.
C9_QuotaExhaustionDistinguished ==
    (PollOver /\ IsQuotaExhausted(poll.cause)) =>
        /\ poll.outcome.kind = "error"
        /\ \A a \in OtherFailures : OutcomeOfFailure(a) # poll.outcome
        /\ "resetAt" \in DOMAIN poll.outcome
        /\ poll.outcome.resetAt = poll.cause.reset

\* send_events_to_sqs has gone through its whole loop without raising
DispatchDone ==
    \/ poll.stage = "update"
    \/ poll.stage = "returned" /\ poll.outcome.kind = "ok" /\ poll.new_events # << >>

\* entry j of call c of this poll carries the event at that place of the input
CarriesEvent(entry, e) ==
    /\ entry.MessageBody.id = e.id
    /\ entry.MessageBody.type = e.type
    /\ entry.MessageAttributes.eventType = e.type
    /\ entry.MessageAttributes.repoName = (IF e.repo = NoRecord THEN "unknown" ELSE e.repo.name)
    /\ entry.MessageAttributes.actorLogin = (IF e.actor = NoRecord THEN "unknown" ELSE e.actor.login)

\* C16: send_events_to_sqs publishes the new events in input order in calls
\* of 10 entries, the last one possibly shorter: ceil(len/10) calls in all,
\* every event in exactly one entry, with its type, repository name and
\* actor login as message attributes.
C16_DispatcherBatching ==
    poll.stage \in {"send", "update", "returned"} =>
        LET n == Len(poll.new_events)
            calls == ThisPollCalls
        IN  /\ DispatchDone => Len(calls) = (n + 9) \div 10
            /\ Len(calls) <= (n + 9) \div 10
            /\ \A c \in 1..Len(calls) :
                  /\ Len(calls[c].entries) = (IF n - 10 * (c - 1) < 10 THEN n - 10 * (c - 1) ELSE 10)
                  /\ \A j \in 1..Len(calls[c].entries) :
                        CarriesEvent(calls[c].entries[j], poll.new_events[10 * (c - 1) + j])

\* C16 witness: 11 new events went out in two calls of 10 and 1 entries,
\* one of them without a repository name.
C16_Witness ==
    /\ DispatchDone
    /\ Len(poll.new_events) = 11
    /\ Len(ThisPollCalls) = 2
    /\ Len(ThisPollCalls[1].entries) = 10 /\ Len(ThisPollCalls[2].entries) = 1
    /\ \E j \in 1..10 : ThisPollCalls[1].entries[j].MessageAttributes.repoName = "unknown"

IsPrefix(a, b) == Len(a) <= Len(b) /\ SubSeq(b, 1, Len(a)) = a

\* the step in which a send_message_batch call of the running poll raises
SendRaises ==
    /\ poll.stage = "send" /\ poll'.stage = "returned"

\* C17: what has been published stays published; when the publish call of
\* sub-batch j raises, the sub-batches before j are in the queue, j and the
\* later ones are not and never will be, the cursor is untouched and the
\* poll ends with the error.
C17_DispatchNotTransactional ==
    [][ /\ IsPrefix(queue_calls, queue_calls')
        /\ queue_calls' # queue_calls => poll.stage = "send" /\ poll'.stage \in {"send", "update"}
        /\ SendRaises =>
              /\ poll'.outcome.kind = "error"
              /\ cursor' = poll.before.cursor
              /\ poll.i < Len(poll.new_events)
              /\ Len(queue_calls') = poll.before.calls + poll.i \div 10
              /\ FlattenEntries(SelectSeq(queue_calls', LAMBDA c : c.poll = polls))
                    = Entries(SubSeq(poll.new_events, 1, poll.i))
      ]_vars

\* C17 witness: the second sub-batch of a poll raised: the poll is over with
\* an error, its first sub-batch of 10 is in the queue, the cursor is as it
\* was before the poll.
C17_Witness ==
    /\ PollOver /\ poll.outcome.kind = "error"
    /\ poll.outcome.errorMessage = << 0, "send_message_batch" >>
    /\ poll.i = 10
    /\ Len(ThisPollCalls) = 1 /\ Len(ThisPollCalls[1].entries) = 10
    /\ cursor = poll.before.cursor

\* the fetch of the poll that is over answered 200
Is200(answer) == answer.kind = "response" /\ answer.status = 200

\* C31: a poll whose successful fetch yields no new interest event (every
\* event before the first known id is of an uninteresting type) publishes
\* nothing and does not write the stored cursor: cache token, seen-id list,
\* poll interval and last poll time are those of before the poll.
C31_NothingNewLeavesCursor ==
    (PollOver /\ Is200(poll.cause) /\ poll.new_events = << >>) =>
        /\ poll.outcome.kind = "ok"
        /\ Len(queue_calls) = poll.before.calls
        /\ cursor = poll.before.cursor

\* C31 witness: a poll that started with a stored cursor fetched a page with
\* a fresh cache token and an event the cursor does not know, found nothing
\* to publish and ended.
C31_Witness ==
    /\ PollOver /\ Is200(poll.cause) /\ poll.new_events = << >>
    /\ cursor # {} /\ queue_calls # << >>
    /\ \A c \in cursor :
          /\ c.etag # poll.cause.etag
          /\ ~ InSeq(poll.cause.events[1].id, c.last_seen_ids)

\* the queue took the event with this id: some send_message_batch call
\* carries it in an entry that the call's Failed list does not name
Accepted(id) ==
    \E c \in 1..Len(queue_calls) : \E j \in 1..Len(queue_calls[c].entries) :
        /\ queue_calls[c].entries[j].MessageBody.id = id
        /\ queue_calls[c].entries[j].Id \notin queue_calls[c].Failed

\* C34: when a poll has replaced the cursor, the queue has accepted every
\* event the poll selected as new; and every interest event whose id the
\* stored seen-id list holds has been accepted by the queue.
C34_NoEventLostByCursor ==
    /\ (PollOver /\ cursor # poll.before.cursor) =>
           \A j \in 1..Len(poll.new_events) : Accepted(poll.new_events[j].id)
    /\ \A c \in cursor : \A j \in 1..Len(c.last_seen_ids) :
           IsInterestType([type |-> TypeOf(feed, c.last_seen_ids[j])]) =>
               Accepted(c.last_seen_ids[j])

\* the polls whose send_message_batch calls carry the event with this id
PublishedBy(id) ==
    { queue_calls[c].poll :
        c \in { d \in 1..Len(queue_calls) :
                  \E j \in 1..Len(queue_calls[d].entries) :
                      queue_calls[d].entries[j].MessageBody.id = id } }

NoRedispatch == \A id \in 1..feed.n : Cardinality(PublishedBy(id)) <= 1

C30_SeenIdCap ==
    f_result.done =>
        /\ Len(f_result.value) <= 100
        /\ Len(f_result.value) = Min(100, Len(f_events))
        /\ \A j \in 1..Len(f_result.value) : f_result.value[j] = f_events[j].id
        /\ \A k \in (Len(f_result.value) + 1)..Len(f_events) :
               \A j \in 1..Len(f_result.value) : f_events[k].id < f_result.value[j]

\* C30 witness: a page of 102 events has been stored as the 100 ids 102..3.
C30_Witness ==
    /\ f_result.done /\ Len(f_events) = 102
    /\ Len(f_result.value) = 100
    /\ f_result.value[1] = 102 /\ f_result.value[100] = 3

(***************************************************************************)
(* Properties of the Statistics API (specification SpecStats)              *)
(***************************************************************************)
\* a pr-average request for a valid repository name was served and the
\* store answered
ServedAverage ==
    /\ st_response # NoRecord
    /\ st_request.httpMethod = "GET" /\ st_request.path = "/metrics/pr-average"
    /\ st_request.repo \in { RepoA, RepoB }
    /\ st_response.storeOk

\* positions in the table of the PullRequestEvent rows of the requested
\* repository, and of the opened ones among them
PrPositions ==
    { j \in 1..Len(st_items) : /\ st_items[j].event_type = "PullRequestEvent"
                               /\ st_items[j].repo_name = st_request.repo }
OpenedPositions == { j \in PrPositions : st_items[j].pr_action = "opened" }

SecondsOfDay(created_at) == 3600 * created_at[1] + 60 * created_at[2] + created_at[3]

Latest(P) == CHOOSE x \in { SecondsOfDay(st_items[j].created_at) : j \in P } :
                \A j \in P : SecondsOfDay(st_items[j].created_at) <= x
Earliest(P) == CHOOSE x \in { SecondsOfDay(st_items[j].created_at) : j \in P } :
                \A j \in P : SecondsOfDay(st_items[j].created_at) >= x

\* h hundredths is the fraction num / den rounded to two decimals
IsRounded(h, num, den) == 2 * (100 * num - h * den) <= den /\ 2 * (h * den - 100 * num) <= den

RespBody == st_response.value.body

\* C18 as stated: with at least 2 opened rows the endpoint returns
\* (latest - earliest) / (n - 1) over the opened rows of the repository,
\* and pr_count = n.
C18_ExactMean ==
    (ServedAverage /\ Cardinality(OpenedPositions) >= 2) =>
        /\ st_response.value.statusCode = 200
        /\ RespBody.pr_count = Cardinality(OpenedPositions)
        /\ RespBody.average_time_between_pr # Null
        /\ RespBody.average_time_between_pr[1] * (Cardinality(OpenedPositions) - 1)
              = 100 * (Latest(OpenedPositions) - Earliest(OpenedPositions))

\* C18 amended: with at least 2 opened rows the endpoint returns
\* (latest - earliest) / (n - 1) over the opened rows of the repository
\* rounded to two decimals, and pr_count = n, whatever the order of the rows
\* and whatever other rows the table holds.
C18_RoundedMean ==
    (ServedAverage /\ Cardinality(OpenedPositions) >= 2) =>
        /\ st_response.value.statusCode = 200
        /\ RespBody.pr_count = Cardinality(OpenedPositions)
        /\ RespBody.average_time_between_pr # Null
        /\ IsRounded(RespBody.average_time_between_pr[1],
                     Latest(OpenedPositions) - Earliest(OpenedPositions),
                     Cardinality(OpenedPositions) - 1)

\* C18 witness: the rows of 12:25, 12:00 and 12:10 come back out of order
\* among noise rows; the answer is 750.00 with pr_count 3.
C18_Witness ==
    /\ ServedAverage
    /\ Len(st_items) = 4
    /\ st_items[1].created_at = << 12, 25, 0 >> /\ st_items[3].created_at = << 12, 0, 0 >>
    /\ st_items[4].created_at = << 12, 10, 0 >>
    /\ OpenedPositions = {1, 3, 4}
    /\ RespBody.average_time_between_pr = Number(75000)
    /\ RespBody.pr_count = 3

\* C19: with fewer than 2 opened rows but at least 2 PullRequestEvent rows
\* the endpoint returns the average over all PullRequestEvent rows of the
\* repository.
C19_OpenedToAllFallback ==
    (ServedAverage /\ Cardinality(OpenedPositions) < 2 /\ Cardinality(PrPositions) >= 2) =>
        /\ st_response.value.statusCode = 200
        /\ RespBody.average_time_between_pr # Null
        /\ IsRounded(RespBody.average_time_between_pr[1],
                     Latest(PrPositions) - Earliest(PrPositions),
                     Cardinality(PrPositions) - 1)

\* C20: with fewer than 2 opened rows (none included) a valid repository
\* name gets status 200 with a null average and the insufficient-data
\* message.
C20_InsufficientData ==
    (ServedAverage /\ Cardinality(OpenedPositions) < 2) =>
        /\ st_response.value.statusCode = 200
        /\ RespBody.average_time_between_pr = Null
        /\ RespBody.message = "Insufficient data - need at least 2 opened PR events"
        /\ RespBody.pr_count = Cardinality(OpenedPositions)

\* C20 witness: a repository with one opened and one closed pull request
\* row gets the insufficient-data answer with pr_count 1.
C20_Witness ==
    /\ ServedAverage
    /\ Cardinality(OpenedPositions) = 1 /\ Cardinality(PrPositions) = 2
    /\ st_response.value.statusCode = 200
    /\ RespBody.average_time_between_pr = Null
    /\ RespBody.pr_count = 1 /\ RespBody.total_pr_events = 2

\* the rows the count query of a category is to match: that category, at or
\* after the start of the trailing window
RowsSince(event_type, offset_minutes) ==
    { j \in 1..Len(st_items) :
        /\ st_items[j].event_type = event_type
        /\ SecondsOfDay(st_items[j].created_at) >= SecondsOfDay(StatsNow) - 60 * offset_minutes }

ServedCount ==
    /\ st_response # NoRecord
    /\ IsEventCountRoute(st_request)
    /\ st_response.value.statusCode = 200

\* C25: in the trailing-window count a category whose query fails counts 0,
\* every other category has the count of its own rows, every category
\* has an entry and was queried, and total_events is the sum of the counts.
C25_PerCategoryDegrade ==
    ServedCount =>
        /\ DOMAIN RespBody.event_counts = { "WatchEvent", "PullRequestEvent", "IssuesEvent" }
        /\ \A t \in DOMAIN RespBody.event_counts :
              RespBody.event_counts[t] =
                  IF t \in st_response.failing THEN 0
                  ELSE Cardinality(RowsSince(t, RespBody.offset_minutes))
        /\ { c.event_type : c \in { st_response.calls[k] : k \in 1..Len(st_response.calls) } }
               = { "WatchEvent", "PullRequestEvent", "IssuesEvent" }
        /\ RespBody.total_events =
               RespBody.event_counts["WatchEvent"] + RespBody.event_counts["PullRequestEvent"]
               + RespBody.event_counts["IssuesEvent"]

\* C25 witness: with offset 30 the PullRequestEvent query failed and the
\* WatchEvent query counted its row: counts 1, 0, 0 and total 1 although
\* two PullRequestEvent rows lie in the window.
C25_Witness ==
    /\ ServedCount
    /\ RespBody.offset_minutes = 30
    /\ st_response.failing = { "PullRequestEvent" }
    /\ Cardinality(RowsSince("PullRequestEvent", 30)) = 2
    /\ RespBody.event_counts["WatchEvent"] = 1
    /\ RespBody.event_counts["PullRequestEvent"] = 0
    /\ RespBody.total_events = 1

\* the name breaks one of the rules the validation is to enforce
Slashes(name) == { j \in 1..Len(name) : name[j] = "/" }

BreaksNameRule(name) ==
    \/ \E j \in 1..(Len(name) - 1) : name[j] = "." /\ name[j + 1] = "."
    \/ name[1] = "/" \/ name[Len(name)] = "/"
    \/ Cardinality(Slashes(name)) # 1
    \/ \E j \in Slashes(name) : j - 1 > 39 \/ Len(name) - j > 100

\* C26: an inter-arrival request whose name contains "..", starts or ends
\* with "/", has not exactly one "/", or has an owner longer than 39 or a
\* name longer than 100 characters is answered 400, and no operation on the
\* event table or the counter table is issued for it.
C26_ValidationBeforeStore ==
    (/\ st_response # NoRecord
     /\ IsPrAverageRoute(st_request)
     /\ st_request.repo # << >>
     /\ BreaksNameRule(st_request.repo))
    => /\ st_response.value.statusCode = 400
       /\ st_response.calls = << >>

\* C26 witness: a name with an owner of 40 characters has been refused on a
\* table that holds a row, without a store operation.
C26_Witness ==
    /\ st_response # NoRecord
    /\ IsPrAverageRoute(st_request)
    /\ Len(st_request.repo) = 42 /\ st_request.repo[41] = "/"
    /\ Len(st_items) = 1
    /\ st_response.value.statusCode = 400
    /\ st_response.calls = << >>

\* C28: the listing names exactly the repositories whose opened counter is
\* at least 2.
C28_ListsCountersFromTwo ==
    (/\ st_response # NoRecord
     /\ st_request = ListingRequest
     /\ st_response.value.statusCode = 200)
    => LET listed == IF RespBody = Null THEN {} ELSE RespBody.repositories
       IN  listed = { r \in Repos : summary[r] >= 2 }

(***************************************************************************)
(* Properties of get_pr_events_for_repo (specifications SpecPages and      *)
(* SpecPagesLive)                                                          *)
(***************************************************************************)
PagesReturned == st_pages.pc = "returned"

\* C33: get_pr_events_for_repo queries again with the key of the last
\* response for as long as a response carries one and returns at the first
\* response without one; what it returns is every PullRequestEvent row of
\* the requested repository, each once, in the ascending created_at order
\* of the index; and it does come to an end (returns or raises).
C33_PaginatesToCompletion ==
    /\ [](PagesReturned =>
            /\ st_pages.last_evaluated_key = Null
            /\ st_pages.items = get_pr_events_for_repo(st_items, st_request.repo)
            /\ Ascending(st_pages.items))
    /\ [][ (st_pages.pc = "loop" /\ st_pages'.queries = st_pages.queries + 1) =>
             /\ st_pages'.pc = "returned" <=> st_pages'.last_evaluated_key = Null
             /\ st_pages'.pc = "loop" <=> st_pages'.last_evaluated_key # Null
             /\ StartOf(st_pages'.last_evaluated_key) >= StartOf(st_pages.last_evaluated_key)
                   \/ st_pages'.last_evaluated_key = Null ]_vars
    /\ <>(st_pages.pc # "loop")

\* C33 witness: three queries were needed for a partition of three rows,
\* two of them of the requested repository, so one page came back empty
\* with a key.
C33_Witness ==
    /\ PagesReturned
    /\ st_pages.queries = 3
    /\ Len(PrPartition(st_items)) = 3
    /\ Len(st_pages.items) = 2

(***************************************************************************)
(* Properties of the timeline (specifications SpecTimeline and             *)
(* SpecTimelineLive)                                                       *)
(***************************************************************************)
TimelineReturned == tl_pc.at = "returned"

\* the time an ISO string of the timeline denotes, in ticks
TimeOfIso(text) == 2 * text[1] + (IF Len(text) = 3 THEN 1 ELSE 0)

RequestedHours == ParseInt(HoursOf(tl_request)).value
RequestedWidth == ParseInt(IntervalOf(tl_request)).value

\* the entries collected for task b
EntriesOf(b) ==
    { j \in 1..Len(tl_timeline) :
        tl_timeline[j].interval_start = isoformat(tl_futures[b].interval_start) }

\* C21: whatever the order in which the tasks ran and whichever queries
\* raised or were given up, the returned timeline is strictly ascending by
\* interval start and has at most 100 entries.
C21_TimelineAscending ==
    TimelineReturned =>
        /\ Len(tl_response.body.timeline) <= 100
        /\ \A j \in 1..(Len(tl_response.body.timeline) - 1) :
               TimeOfIso(tl_response.body.timeline[j].interval_start)
                   < TimeOfIso(tl_response.body.timeline[j + 1].interval_start)

\* C21 witness: two intervals, a task ran before the task submitted ahead of
\* it and the collector gave up on the task of the newer interval; the timeline was returned
\* with the older interval first.
C21_Witness ==
    /\ TimelineReturned
    /\ Len(tl_futures) = 2
    /\ tl_pc.overtaken
    /\ tl_futures[1].timed_out
    /\ tl_response.body.timeline[1].interval_start = isoformat(tl_futures[2].interval_start)
    /\ tl_response.body.timeline[2].interval_start = isoformat(tl_futures[1].interval_start)

\* C22: in every collected entry a cell whose query raised or was given up
\* counts 0 and a cell whose query answered has the count the query
\* returned; a response that is returned is a 200.
C22_PerCellDegradeToZero ==
    /\ \A b \in 1..Len(tl_futures) : \A j \in EntriesOf(b) : \A t \in TypeSet :
          /\ tl_futures[b].how[t] = "raises" => tl_timeline[j].counts[t] = 0
          /\ (tl_futures[b].how[t] \in { "slow", "stalls" } /\ tl_futures[b].timed_out)
                 => tl_timeline[j].counts[t] = 0
          /\ tl_futures[b].how[t] = "answers"
                 => tl_timeline[j].counts[t] = tl_futures[b].counts[t]
    /\ TimelineReturned => tl_response.statusCode = 200

\* C23: an accepted or refused request is eventually answered, whatever the
\* cell queries do.
C23_ReturnsDespiteStalls == <>(tl_response # NoRecord)

\* the covered window and the rows in it, strictly and with its two ends
WindowStart == tl_futures[Len(tl_futures)].interval_start
WindowEnd == tl_futures[1].interval_end

StrictlyInside(event_type) ==
    { r \in tl_table : /\ r.event_type = event_type
                       /\ WindowStart < 2 * r.created_at[1]
                       /\ 2 * r.created_at[1] < WindowEnd }

InsideOrAtEnds(event_type) ==
    { r \in tl_table : /\ r.event_type = event_type
                       /\ WindowStart <= 2 * r.created_at[1]
                       /\ 2 * r.created_at[1] <= WindowEnd }

CountedOverall(event_type) ==
    SumRange([j \in 1..Len(tl_timeline) |-> tl_timeline[j].counts[event_type]],
             1, Len(tl_timeline))

NoQueryFailed ==
    \A b \in 1..Len(tl_futures) :
        /\ ~ tl_futures[b].timed_out
        /\ \A t \in TypeSet : tl_futures[b].how[t] = "answers"

\* C24: when no query fails the intervals partition the covered window: per
\* category the counts of the intervals add up to the number of rows in the
\* window (a row strictly inside is counted once, a row outside is not
\* counted), and total_events is the number of rows in the window.
C24_BucketsPartitionWindow ==
    (TimelineReturned /\ NoQueryFailed /\ Len(tl_futures) > 0) =>
        /\ \A t \in TypeSet :
              /\ Cardinality(StrictlyInside(t)) <= CountedOverall(t)
              /\ CountedOverall(t) <= Cardinality(InsideOrAtEnds(t))
        /\ tl_response.body.total_events
               = CountedOverall("WatchEvent") + CountedOverall("PullRequestEvent")
                 + CountedOverall("IssuesEvent")

\* C29: the returned timeline has min(floor(H * 60 / W), 100) entries, one
\* for each interval index, of W minutes each, whichever queries raised or
\* were given up.
C29_BucketCount ==
    TimelineReturned =>
        /\ Len(tl_response.body.timeline)
               = Min((RequestedHours * 60) \div RequestedWidth, 100)
        /\ tl_response.body.data_points = Len(tl_response.body.timeline)
        /\ Len(tl_futures) = Len(tl_response.body.timeline)
        /\ \A b \in 1..Len(tl_futures) :
              /\ Cardinality(EntriesOf(b)) = 1
              /\ tl_futures[b].interval_end - tl_futures[b].interval_start = 120 * RequestedWidth
              /\ tl_clock - tl_futures[b].interval_end - 120 * RequestedWidth * (b - 1) \in { 0, 1 }

\* C29 witness: hours=168 and interval=1 (10080 intervals asked for) has
\* returned 100 entries.
C29_Witness ==
    /\ TimelineReturned
    /\ RequestedHours = 168 /\ RequestedWidth = 1
    /\ Len(tl_response.body.timeline) = 100
    /\ tl_response.body.data_points = 100

\* C37: with now the time the request's first interval was cut at, H the
\* hours and W the interval asked for, interval i (from 0, most recent
\* first) spans [now - (i+1)*W, now - i*W]; no interval starts before
\* now - H hours; and when H*60/W exceeds 100 or W does not divide H*60
\* every interval starts after now - H hours.
C37_InsideLookback ==
    (TimelineReturned /\ tl_futures # << >>) =>
        LET now == tl_futures[1].interval_end
            width == Minutes(tl_pc.interval_minutes)
            asked == Minutes(60 * tl_pc.hours)
        IN  /\ \A b \in 1..Len(tl_futures) :
                  /\ tl_futures[b].interval_start = now - b * width
                  /\ tl_futures[b].interval_end = now - (b - 1) * width
                  /\ tl_futures[b].interval_start >= now - asked
            /\ (60 * tl_pc.hours > 100 * tl_pc.interval_minutes
                    \/ (60 * tl_pc.hours) % tl_pc.interval_minutes # 0) =>
                  \A b \in 1..Len(tl_futures) : tl_futures[b].interval_start > now - asked

====
